---- MODULE Spec2Model ----
(***************************************************************************)
(* CPU rasterizer: parallel frame scheduler (optimized_renderer_core),     *)
(* scanline slicing, the archetype entity store (fecs::world) with its     *)
(* render cache and component registry, the depth test of the pixel loop,  *)
(* and the frame ring of the presentation device (gfx_dx11).               *)
(*                                                                         *)
(* The specifications of this module:                                      *)
(*   SpecSched     - persistent workers, generation handshake, barrier     *)
(*   SpecSchedFair - the same threads under a fair scheduler               *)
(*   SpecSlice     - compute_slice_ranges and the rows each slice writes   *)
(*   SpecWorld     - fecs::world structural operations                     *)
(*   SpecCache     - fecs::world with its render_cache                     *)
(*   SpecRegistry  - component_registry and the typed interface            *)
(*   SpecDepth     - the depth test of one pixel over a frame              *)
(*   SpecRing      - the frame ring, its present thread and clear workers  *)
(*   SpecFrames    - the ring while the renderer draws, presents, records  *)
(*   SpecPlayback  - the ring while a recording is made and played back    *)
(*   SpecDevice    - the ring under a caller that keeps frame handles      *)
(*   SpecRecycle   - recording and playback under a fair scheduler         *)
(*   SpecPost      - post_process_slice on one row, scalar and USE_SIMD    *)
(***************************************************************************)
EXTENDS Integers, Sequences, FiniteSets, TLC

(***************************************************************************)
(* Program constants.  The repository builds the renderer twice: the       *)
(* assignment build runs 5 workers, the engine build 8; the handshake, the *)
(* barrier and compute_slice_ranges are the same code in both.  The worker *)
(* count modelled is the assignment build's.                               *)
(***************************************************************************)
kWorkerCount == 5
kTotalSlices == kWorkerCount + 1
kRowAlign == 4

(***************************************************************************)
(* Bounds of the model                                                     *)
(***************************************************************************)
MaxPasses == 2

Workers == 0 .. (kWorkerCount - 1)
Slices == 0 .. (kTotalSlices - 1)
JobTypes == {"draw", "post_process", "rainy_effect", "advanced_effects"}

VARIABLES
    m_job_gen,      \* std::uint64_t m_job_gen
    m_done_count,   \* int m_done_count
    m_job_type,     \* job_type m_job_type
    m_job,          \* job_params m_job, as the generation its contents were written for
    m_shutdown,     \* std::atomic<bool> m_shutdown
    seen_gen,       \* worker_loop local seen_gen, per worker
    local_type,     \* worker_loop local local_type, per worker
    wpc,            \* position of each worker inside worker_loop
    cpc,            \* position of the calling thread inside a pass
    sleeping,       \* workers blocked inside m_job_cv.wait, not yet notified
    slice_runs,     \* per slice: last generation and type executed, and how many runs
    fb_h,           \* framebuffer.h
    fb_w,           \* framebuffer.w
    tri,            \* screen-space triangle submitted to draw_world_slice
    slice_job,      \* job type the slices of the pass execute
    ssr_enabled,    \* m_job.advanced_settings.ssr_enabled
    m_ranges,       \* worker_range m_ranges[kTotalSlices]
    ranges_ready,   \* compute_slice_ranges has run for this pass
    wrote,          \* per slice: pixels <<x, y>> written in this pass
    generations_,   \* entity_manager::generations_
    fragment_,      \* entity_manager::fragment_ (free list of slot indices)
    alive_count_,   \* entity_manager::alive_count_
    tables_,        \* world_storage::tables_
    key_tables_,    \* world_storage::key_tables_ (archetype key -> table id)
    schema_version_,\* world_storage::schema_version_
    locations_,     \* world::locations_
    version_,       \* world::version_
    initialized_,   \* render_cache::initialized_
    required_,      \* render_cache::required_
    matching_,      \* render_cache::matching_
    blocks_,        \* render_cache::blocks_
    cached_version_,\* render_cache::cached_version_
    cache_cs,       \* template arguments Cs... of the render_cache
    rescanned,      \* whether the step just taken ran build_matching
    issued,         \* every entity handle create_entity has returned
    destroyed,      \* every handle destroy_entity has destroyed while alive
    owned,          \* per issued handle: the components added and not removed since
    dirty,          \* a structural mutation happened since the last refresh
    zpix,           \* depth stored in the z-buffer for one pixel
    cpix,           \* packed colour stored in the framebuffer for that pixel
    frags,          \* the fragments submitted to that pixel this frame, in order
    nsub,           \* how many of them the pixel loop has processed
    type_ids_,      \* component_registry::type_ids_ (type -> component id)
    type_infos_,    \* component_registry::type_infos_ (the type of each id)
    halted,         \* the process was terminated by a failed assert / fault
    reg_ret,        \* the last register_component<T> call: T and the id it returned
    reg_order,      \* the types passed to register_component, in first-call order
    slot_state,     \* pimpl::slots[i].state
    slot_gen,       \* pimpl::slots[i].generation
    latest_slot_valid, \* pimpl::latest_slot_valid
    latest_slot,    \* pimpl::latest_slot
    latest_gen,     \* pimpl::latest_gen
    clear_q,        \* pimpl::clear_q
    bb_q,           \* pimpl::bb_q, its length
    slot_zero,      \* per slot: its colour and depth buffers are entirely zero
    latest_rec_valid,   \* pimpl::latest_rec_valid
    latest_rec_index,   \* pimpl::latest_rec_index
    recording,      \* pimpl::recording
    rec_frames,     \* pimpl::rec_frames, as its size
    playing,        \* pimpl::playing
    looping,        \* pimpl::looping
    play_cursor,    \* pimpl::play_cursor
    pb_ret,         \* what the last playback_present_next returned
    kept_frame,     \* a cpu_frame the caller copied
    next_marker,    \* pimpl::next_marker
    flush_marker_requested, \* pimpl::flush_marker_requested
    flush_marker_done,      \* pimpl::flush_marker_done
    shutting_down,  \* pimpl::shutting_down
    ppc,            \* position of the present thread inside present_loop
    p_slot,         \* present_loop local slot
    cw_slots,       \* per slot: how many clear workers are inside clear_slot_cpu on it
    cw_exited,      \* how many clear workers have returned from clear_loop_worker
    rpc,            \* position of the renderer's thread in its calls on the device
    marker,         \* flush_blocking local marker
    cur_frame,      \* optimized_renderer_core::cur_frame
    framebuffer,    \* framebuffer.data: the slot whose colour buffer is bound
    zbuffer,        \* zbuffer.data: the slot whose depth buffer is bound
    began,          \* what the last begin_cpu_frame returned
    pp_w,           \* framebuffer.w of the row being post-processed
    pp_row,         \* the row before post_process_slice
    pp_settings,    \* m_job.post_settings
    pp_scalar,      \* the row after post_process_slice, scalar build
    pp_simd         \* the row after post_process_slice, USE_SIMD build

schedVars == <<m_job_gen, m_done_count, m_job_type, m_job, m_shutdown,
               seen_gen, local_type, wpc, cpc, slice_runs, sleeping>>

sliceVars == <<fb_h, fb_w, tri, slice_job, ssr_enabled, m_ranges, ranges_ready, wrote>>

worldVars == <<generations_, fragment_, alive_count_, tables_, key_tables_,
               schema_version_, locations_, version_>>

cacheVars == <<initialized_, required_, matching_, blocks_, cached_version_>>

ghostVars == <<issued, destroyed, dirty, rescanned, owned>>

ecsVars == <<worldVars, cacheVars, cache_cs, ghostVars>>

depthVars == <<zpix, cpix, frags, nsub>>

regVars == <<type_ids_, type_infos_, halted, reg_ret, reg_order>>

slotVars == <<slot_state, slot_gen>>

latestVars == <<latest_slot_valid, latest_slot, latest_gen>>

latestRecVars == <<latest_rec_valid, latest_rec_index>>

recVars == <<recording, rec_frames, playing, looping, play_cursor, pb_ret>>

queueVars == <<clear_q, bb_q>>

flushVars == <<next_marker, flush_marker_requested, flush_marker_done>>

presentVars == <<ppc, p_slot>>

rendVars == <<rpc, marker, cur_frame, framebuffer, zbuffer, began>>

cwVars == <<cw_slots, cw_exited>>

ringVars == <<slotVars, slot_zero, latestVars, latestRecVars, queueVars,
              flushVars, shutting_down, presentVars, cwVars, rendVars, recVars,
              kept_frame>>

postVars == <<pp_w, pp_row, pp_settings, pp_scalar, pp_simd>>

vars == <<schedVars, sliceVars, ecsVars, depthVars, regVars, ringVars, postVars>>

\* what each subsystem's actions leave alone
nonSchedVars == <<sliceVars, ecsVars, depthVars, regVars, ringVars, postVars>>
nonSliceVars == <<schedVars, ecsVars, depthVars, regVars, ringVars, postVars>>
nonEcsVars == <<schedVars, sliceVars, depthVars, regVars, ringVars, postVars>>
nonDepthVars == <<schedVars, sliceVars, ecsVars, regVars, ringVars, postVars>>
nonRegVars == <<schedVars, sliceVars, depthVars, ringVars, postVars>>
nonRingVars == <<schedVars, sliceVars, ecsVars, depthVars, regVars, postVars>>
nonPostVars == <<schedVars, sliceVars, ecsVars, depthVars, regVars, ringVars>>

(***************************************************************************)
(* Scheduler                                                               *)
(***************************************************************************)
SchedInit ==
    /\ m_job_gen = 0
    /\ m_done_count = 0
    /\ m_job_type = "draw"
    /\ m_job = 0
    /\ m_shutdown = FALSE
    /\ seen_gen = [w \in Workers |-> 0]
    /\ local_type = [w \in Workers |-> "draw"]
    /\ wpc = [w \in Workers |-> "wait"]
    /\ cpc = "idle"
    /\ sleeping = {}
    /\ slice_runs = [s \in Slices |-> [gen |-> 0, type |-> "draw", job |-> 0, count |-> 0]]

\* variant: the caller stops waiting one increment early
DoneWaitPredicate_early(done) == done >= kWorkerCount - 1

\* predicate of m_done_cv.wait in draw_world / apply_*
DoneWaitPredicate(done) == done = kWorkerCount

\* predicate of m_job_cv.wait in worker_loop
JobWaitPredicate(shutdown, gen, seen) == shutdown \/ (gen # seen)

\* the locked block that publishes a pass: type, done reset, generation bump
PostJob(type) ==
    /\ cpc = "idle"
    /\ ~m_shutdown
    /\ m_job_gen < MaxPasses
    /\ m_job' = m_job_gen + 1
    /\ m_job_type' = type
    /\ m_done_count' = 0
    /\ m_job_gen' = m_job_gen + 1
    /\ cpc' = "posted"
    /\ UNCHANGED <<sleeping, m_shutdown, seen_gen, local_type, wpc, slice_runs>>
    /\ UNCHANGED nonSchedVars

draw_world == PostJob("draw")
apply_post_process == PostJob("post_process")
apply_rainy_effect == PostJob("rainy_effect")
apply_advanced_effects == PostJob("advanced_effects")

\* draw_world of the assignment build: m_job is filled in before the lock
draw_world_fill_job ==
    /\ cpc = "idle"
    /\ ~m_shutdown
    /\ m_job_gen < MaxPasses
    /\ m_job' = m_job_gen + 1
    /\ cpc' = "job_filled"
    /\ UNCHANGED <<sleeping, m_job_gen, m_done_count, m_job_type, m_shutdown,
                   seen_gen, local_type, wpc, slice_runs>>
    /\ UNCHANGED nonSchedVars

\* draw_world of the assignment build: the locked block resets the count
\* and bumps the generation; that build's workers always draw
draw_world_bump ==
    /\ cpc = "job_filled"
    /\ m_job_type' = "draw"
    /\ m_done_count' = 0
    /\ m_job_gen' = m_job_gen + 1
    /\ cpc' = "posted"
    /\ UNCHANGED <<m_job, sleeping, m_shutdown, seen_gen, local_type, wpc, slice_runs>>
    /\ UNCHANGED nonSchedVars

\* m_job_cv.notify_all() after the locked block
NotifyJob ==
    /\ cpc = "posted"
    /\ sleeping' = {}
    /\ cpc' = "notified"
    /\ UNCHANGED <<m_job, m_job_gen, m_done_count, m_job_type, m_shutdown,
                   seen_gen, local_type, wpc, slice_runs>>
    /\ UNCHANGED nonSchedVars

\* the calling thread executes the last slice itself
CallerRunSlice ==
    /\ cpc = "notified"
    /\ slice_runs' = [slice_runs EXCEPT ![kTotalSlices - 1] =
                          [gen |-> m_job_gen, type |-> m_job_type,
                           job |-> m_job, count |-> @.count + 1]]
    /\ cpc' = "waiting"
    /\ UNCHANGED <<m_job, sleeping, m_job_gen, m_done_count, m_job_type, m_shutdown,
                   seen_gen, local_type, wpc>>
    /\ UNCHANGED nonSchedVars

\* m_done_cv.wait finds its predicate false and blocks
CallerBlock ==
    /\ cpc = "waiting"
    /\ ~DoneWaitPredicate(m_done_count)
    /\ cpc' = "blocked"
    /\ UNCHANGED <<m_job, sleeping, m_job_gen, m_done_count, m_job_type, m_shutdown,
                   seen_gen, local_type, wpc, slice_runs>>
    /\ UNCHANGED nonSchedVars

\* m_done_cv.wait returns; the pass function returns
CallerReturn ==
    /\ cpc = "waiting"
    /\ DoneWaitPredicate(m_done_count)
    /\ cpc' = "idle"
    /\ UNCHANGED <<m_job, sleeping, m_job_gen, m_done_count, m_job_type, m_shutdown,
                   seen_gen, local_type, wpc, slice_runs>>
    /\ UNCHANGED nonSchedVars

\* variant: the worker does not look at the flag after waking
ShutdownObserved_ignored(shutdown) == FALSE

\* if (m_shutdown.load(std::memory_order_acquire)) return;
ShutdownObserved(shutdown) == shutdown

\* variant: the worker keeps its old seen_gen
latch_gen_kept(gen, seen) == seen

\* seen_gen = m_job_gen;
latch_gen(gen, seen) == gen

\* worker_loop: wait on m_job_cv, then either exit or latch the generation
WorkerWake(w) ==
    /\ wpc[w] = "wait"
    /\ w \notin sleeping
    /\ JobWaitPredicate(m_shutdown, m_job_gen, seen_gen[w])
    /\ IF ShutdownObserved(m_shutdown)
       THEN /\ wpc' = [wpc EXCEPT ![w] = "exited"]
            /\ UNCHANGED <<sleeping, seen_gen, local_type>>
       ELSE /\ seen_gen' = [seen_gen EXCEPT ![w] = latch_gen(m_job_gen, @)]
            /\ local_type' = [local_type EXCEPT ![w] = m_job_type]
            /\ wpc' = [wpc EXCEPT ![w] = "run"]
    /\ UNCHANGED <<m_job, sleeping, m_job_gen, m_done_count, m_job_type, m_shutdown, cpc,
                   slice_runs>>
    /\ UNCHANGED nonSchedVars

\* worker_loop: m_job_cv.wait finds its predicate false and blocks
WorkerBlock(w) ==
    /\ wpc[w] = "wait"
    /\ w \notin sleeping
    /\ ~JobWaitPredicate(m_shutdown, m_job_gen, seen_gen[w])
    /\ sleeping' = sleeping \cup {w}
    /\ UNCHANGED <<m_job, m_job_gen, m_done_count, m_job_type, m_shutdown, seen_gen,
                   local_type, wpc, cpc, slice_runs>>
    /\ UNCHANGED nonSchedVars

\* a condition variable may wake a waiter without a notification
SpuriousWake(w) ==
    /\ w \in sleeping
    /\ sleeping' = sleeping \ {w}
    /\ UNCHANGED <<m_job, m_job_gen, m_done_count, m_job_type, m_shutdown, seen_gen,
                   local_type, wpc, cpc, slice_runs>>
    /\ UNCHANGED nonSchedVars

\* worker_loop: execute the slice outside the lock
WorkerRunSlice(w) ==
    /\ wpc[w] = "run"
    /\ slice_runs' = [slice_runs EXCEPT ![w] =
                          [gen |-> seen_gen[w], type |-> local_type[w],
                           job |-> m_job, count |-> @.count + 1]]
    /\ wpc' = [wpc EXCEPT ![w] = "finish"]
    /\ UNCHANGED <<m_job, sleeping, m_job_gen, m_done_count, m_job_type, m_shutdown,
                   seen_gen, local_type, cpc>>
    /\ UNCHANGED nonSchedVars

\* m_done_cv.wait may also wake without a notification
CallerSpuriousWake ==
    /\ cpc = "blocked"
    /\ cpc' = "waiting"
    /\ UNCHANGED <<m_job, sleeping, m_job_gen, m_done_count, m_job_type, m_shutdown,
                   seen_gen, local_type, wpc, slice_runs>>
    /\ UNCHANGED nonSchedVars

\* variant: the notification waits for a count the workers never reach
DoneNotifies_never(done) == done = kTotalSlices

\* if (m_done_count == kWorkerCount) m_done_cv.notify_one()
DoneNotifies(done) == done = kWorkerCount

\* worker_loop: ++m_done_count under the lock, then the notification
WorkerFinish(w) ==
    /\ wpc[w] = "finish"
    /\ m_done_count' = m_done_count + 1
    /\ wpc' = [wpc EXCEPT ![w] = "wait"]
    /\ cpc' = IF DoneNotifies(m_done_count') /\ cpc = "blocked"
              THEN "waiting" ELSE cpc
    /\ UNCHANGED <<m_job, sleeping, m_job_gen, m_job_type, m_shutdown, seen_gen,
                   local_type, slice_runs>>
    /\ UNCHANGED nonSchedVars


\* shutdown_persistent_workers: m_shutdown.store(true)
ShutdownStore ==
    /\ cpc = "idle"
    /\ m_shutdown' = TRUE
    /\ cpc' = "shutdown_flagged"
    /\ UNCHANGED <<m_job, sleeping, m_job_gen, m_done_count, m_job_type, seen_gen, local_type,
                   wpc, slice_runs>>
    /\ UNCHANGED nonSchedVars

\* shutdown_persistent_workers: ++m_job_gen under the lock, notify_all
ShutdownBump ==
    /\ cpc = "shutdown_flagged"
    /\ m_job_gen' = m_job_gen + 1
    /\ cpc' = "bumped"
    /\ UNCHANGED <<m_job, sleeping, m_done_count, m_job_type, m_shutdown, seen_gen,
                   local_type, wpc, slice_runs>>
    /\ UNCHANGED nonSchedVars

\* shutdown_persistent_workers: m_job_cv.notify_all()
ShutdownNotify ==
    /\ cpc = "bumped"
    /\ sleeping' = {}
    /\ cpc' = "joining"
    /\ UNCHANGED <<m_job, m_job_gen, m_done_count, m_job_type, m_shutdown, seen_gen,
                   local_type, wpc, slice_runs>>
    /\ UNCHANGED nonSchedVars

\* shutdown_persistent_workers: the join loop returns once every worker exited
JoinWorkers ==
    /\ cpc = "joining"
    /\ \A w \in Workers : wpc[w] = "exited"
    /\ cpc' = "joined"
    /\ UNCHANGED <<m_job, sleeping, m_job_gen, m_done_count, m_job_type, m_shutdown, seen_gen,
                   local_type, wpc, slice_runs>>
    /\ UNCHANGED nonSchedVars

(***************************************************************************)
(* Scanline slicing                                                        *)
(***************************************************************************)
MaxH == 10
MaxW == 3

Min2(a, b) == IF a < b THEN a ELSE b
Max2(a, b) == IF a > b THEN a ELSE b
Min3(a, b, c) == Min2(a, Min2(b, c))
Max3(a, b, c) == Max2(a, Max2(b, c))

\* compute_slice_ranges: end row of slice s and first row of slice s,
\* following the running variable y of the loop
RECURSIVE SliceY1(_, _)
SliceY0(h, s) == IF s = 0 THEN 0 ELSE SliceY1(h, s - 1) + 1

AlignedEnd(y1) == ((y1 + 1 + (kRowAlign - 1)) \div kRowAlign) * kRowAlign - 1

SliceY1(h, s) ==
    LET total == kTotalSlices
        base == h \div total
        rem == h % total
        slice_h == base + (IF s < rem THEN 1 ELSE 0)
        y == SliceY0(h, s)
        y1 == y + slice_h - 1
    IN  IF s = total - 1
        THEN h - 1
        ELSE IF AlignedEnd(y1) < h - 1 THEN AlignedEnd(y1) ELSE y1

compute_slice_ranges(h) ==
    [s \in Slices |-> [y0 |-> SliceY0(h, s), y1 |-> SliceY1(h, s)]]

\* Screen-space coordinates are fixed point with one fractional bit:
\* the integer c stands for the float c / 2.
Floor2(c) == c \div 2
Ceil2(c) == -((-c) \div 2)

\* edge_fn on half-pixel coordinates (result scaled by 4)
edge_fn(ax, ay, bx, by, px, py) == (px - ax) * (by - ay) - (py - ay) * (bx - ax)

\* one edge function of the triangle setup at the centre of pixel (x, y),
\* scaled by 4: (e_a * (x + 0.5) + e_b * (y + 0.5) + e_c) * sign
EdgeAt(ax, ay, bx, by, sign, x, y) ==
    ((by - ay) * (2 * x + 1) + (ax - bx) * (2 * y + 1) + (bx * ay - by * ax)) * sign

\* variant: the bounding box is not clipped to the slice's rows
DrawSliceWrites_unclipped(t, W, y0, y1) ==
    LET area == edge_fn(t[1], t[2], t[3], t[4], t[5], t[6])
        sign == IF area < 0 THEN -1 ELSE 1
        minx0 == Floor2(Min3(t[1], t[3], t[5]))
        maxx0 == Ceil2(Max3(t[1], t[3], t[5]))
        miny0 == Floor2(Min3(t[2], t[4], t[6]))
        maxy0 == Ceil2(Max3(t[2], t[4], t[6]))
        minx == IF minx0 < 0 THEN 0 ELSE minx0
        maxx == IF maxx0 >= W THEN W - 1 ELSE maxx0
    IN  IF area = 0 THEN {}
        ELSE IF maxx0 < 0 \/ maxy0 < y0 \/ minx0 >= W \/ miny0 > y1 THEN {}
        ELSE IF minx > maxx THEN {}
        ELSE {p \in (minx .. maxx) \X (miny0 .. maxy0) :
                /\ EdgeAt(t[3], t[4], t[5], t[6], sign, p[1], p[2]) >= 0
                /\ EdgeAt(t[5], t[6], t[1], t[2], sign, p[1], p[2]) >= 0
                /\ EdgeAt(t[1], t[2], t[3], t[4], sign, p[1], p[2]) >= 0}

\* draw_world_slice for one triangle t = <<x0, y0, x1, y1, x2, y2>>: the
\* pixels whose colour and depth are written when every depth test passes
DrawSliceWrites(t, W, y0, y1) ==
    LET area == edge_fn(t[1], t[2], t[3], t[4], t[5], t[6])
        sign == IF area < 0 THEN -1 ELSE 1
        minx0 == Floor2(Min3(t[1], t[3], t[5]))
        maxx0 == Ceil2(Max3(t[1], t[3], t[5]))
        miny0 == Floor2(Min3(t[2], t[4], t[6]))
        maxy0 == Ceil2(Max3(t[2], t[4], t[6]))
        minx == IF minx0 < 0 THEN 0 ELSE minx0
        maxx == IF maxx0 >= W THEN W - 1 ELSE maxx0
        miny == IF miny0 < y0 THEN y0 ELSE miny0
        maxy == IF maxy0 > y1 THEN y1 ELSE maxy0
    IN  IF area = 0 THEN {}
        ELSE IF maxx0 < 0 \/ maxy0 < y0 \/ minx0 >= W \/ miny0 > y1 THEN {}
        ELSE IF minx > maxx \/ miny > maxy THEN {}
        ELSE {p \in (minx .. maxx) \X (miny .. maxy) :
                /\ EdgeAt(t[3], t[4], t[5], t[6], sign, p[1], p[2]) >= 0
                /\ EdgeAt(t[5], t[6], t[1], t[2], sign, p[1], p[2]) >= 0
                /\ EdgeAt(t[1], t[2], t[3], t[4], sign, p[1], p[2]) >= 0}

\* post_process_slice / rainy_effect_slice / advanced_effects_slice: the
\* pixels row[x] that may be stored to, rows y0..y1 and x < W
EffectSliceWrites(W, y0, y1) == (0 .. (W - 1)) \X (y0 .. y1)

\* dispatch on the job type as in worker_loop
SliceWrites(type, t, W, r) ==
    IF r.y0 <= r.y1
    THEN IF type = "draw" THEN DrawSliceWrites(t, W, r.y0, r.y1)
         ELSE EffectSliceWrites(W, r.y0, r.y1)
    ELSE {}

\* advanced_effects_slice: mirror_y = (H - 1u) - y
MirrorRow(H, y) == (H - 1) - y

\* advanced_effects_slice: the framebuffer rows it loads from, row y itself
\* and, with ssr_enabled, the mirror row of y
AdvancedSliceReads(H, ssr, y0, y1) ==
    (y0 .. y1) \cup (IF ssr THEN {MirrorRow(H, y) : y \in y0 .. y1} ELSE {})

\* the rows of the framebuffer and the z-buffer a slice loads from:
\* draw_world_slice tests depth at the pixels it covers, the effect slices
\* load row y (and zrow y) for y0 <= y <= y1
SliceReads(type, t, W, H, ssr, r) ==
    IF r.y0 <= r.y1
    THEN IF type = "draw"
         THEN {p[2] : p \in DrawSliceWrites(t, W, r.y0, r.y1)}
         ELSE IF type = "advanced_effects"
              THEN AdvancedSliceReads(H, ssr, r.y0, r.y1)
              ELSE r.y0 .. r.y1
    ELSE {}

NoTri == <<0, 0, 0, 0, 0, 0>>

\* triangles in half-pixel units: covering the target, overhanging every
\* border, clockwise and counter-clockwise, degenerate, fully outside
Triangles == {
    <<-4, -4, 30, -4, -4, 40>>,
    <<-4, -4, -4, 40, 30, -4>>,
    <<1, 3, 5, 9, 2, 17>>,
    <<0, 0, 4, 4, 8, 8>>,
    <<-9, 2, -3, 2, -5, 8>> }

SliceInit ==
    /\ fb_h \in 1 .. MaxH
    /\ fb_w \in 1 .. MaxW
    /\ slice_job \in JobTypes
    /\ ssr_enabled \in (IF slice_job = "advanced_effects" THEN BOOLEAN ELSE {FALSE})
    /\ tri \in (IF slice_job = "draw" THEN Triangles ELSE {NoTri})
    /\ m_ranges = [s \in Slices |-> [y0 |-> 0, y1 |-> 0]]
    /\ ranges_ready = FALSE
    /\ wrote = [s \in Slices |-> [ran |-> FALSE, px |-> {}, rd |-> {}]]

\* quiescent values of the slicing variables in the other specifications
SliceIdle ==
    /\ fb_h = 1
    /\ fb_w = 1
    /\ slice_job = "draw"
    /\ ssr_enabled = FALSE
    /\ tri = NoTri
    /\ m_ranges = [s \in Slices |-> [y0 |-> 0, y1 |-> 0]]
    /\ ranges_ready = FALSE
    /\ wrote = [s \in Slices |-> [ran |-> FALSE, px |-> {}, rd |-> {}]]

\* the pass function calls compute_slice_ranges(framebuffer.h)
ComputeSliceRanges ==
    /\ ~ranges_ready
    /\ m_ranges' = compute_slice_ranges(fb_h)
    /\ ranges_ready' = TRUE
    /\ UNCHANGED <<fb_h, fb_w, tri, slice_job, ssr_enabled, wrote>>
    /\ UNCHANGED nonSliceVars

\* thread s (worker s, or the caller for the last slice) executes its slice
RunSlice(s) ==
    /\ ranges_ready
    /\ ~wrote[s].ran
    /\ wrote' = [wrote EXCEPT ![s] =
                    [ran |-> TRUE,
                     px |-> SliceWrites(slice_job, tri, fb_w, m_ranges[s]),
                     rd |-> SliceReads(slice_job, tri, fb_w, fb_h, ssr_enabled,
                                       m_ranges[s])]]
    /\ UNCHANGED <<fb_h, fb_w, tri, slice_job, ssr_enabled, m_ranges, ranges_ready>>
    /\ UNCHANGED nonSliceVars

(***************************************************************************)
(* Archetype entity store                                                  *)
(*                                                                         *)
(* The all-ones sentinels (numeric_limits<uint32_t>::max() and             *)
(* numeric_limits<uint64_t>::max()) are written -1.  Generations and       *)
(* versions stay far below 2^32 within MaxVersion operations.              *)
(***************************************************************************)
INVALID_ID == -1
INVALID_TABLE == -1
INVALID_ENTITY == <<INVALID_ID, INVALID_ID>>
kSeedCapacity == 8
empty_table_ == 0

MaxEntities == 2
MaxVersion == 7
MaxCacheVersion == 6
NumComps == 2
MaxVal == 1

Comps == 0 .. (NumComps - 1)
Vals == 1 .. MaxVal
DefaultValue == 0
NoValue == -1
Raw == -2
ReserveCounts == {1, 2}
CacheTemplates == {<<0>>, <<1, 0>>}

\* entity::make / index / generation
entity_make(index, generation) == <<index, generation>>
entity_index(e) == e[1]
entity_generation(e) == e[2]
entity_valid(e) == e # INVALID_ENTITY

\* element i (0-based) of a vector
At(vec, i) == vec[i + 1]
SetAt(vec, i, x) == [vec EXCEPT ![i + 1] = x]
PopBack(vec) == SubSeq(vec, 1, Len(vec) - 1)

\* archetype_key::canonicalise: sort, then erase duplicates
RECURSIVE SortedSeqOf(_)
SortedSeqOf(S) ==
    IF S = {} THEN <<>>
    ELSE LET m == CHOOSE x \in S : \A y \in S : x <= y
         IN  <<m>> \o SortedSeqOf(S \ {m})

SeqRange(q) == {q[i] : i \in DOMAIN q}

\* variant: the ids are kept in the order given
canonicalise_unsorted(ids) == ids

\* archetype_key::canonicalise: sort, then drop duplicates
canonicalise(ids) == SortedSeqOf(SeqRange(ids))

\* archetype_key::contains
key_contains(key, cid) == \E i \in DOMAIN key : key[i] = cid

\* table::column_index: position of lower_bound(cid) in the key
column_index(key, cid) == Cardinality({i \in DOMAIN key : key[i] < cid})

\* entity_manager::alive
alive(gens, e) ==
    /\ entity_valid(e)
    /\ entity_index(e) < Len(gens)
    /\ At(gens, entity_index(e)) = entity_generation(e)

\* variant: the increment is lost
bump_version_lost(v) == v

\* world::bump_version
bump_version(v) == v + 1

\* column(ci): empty column of component ci
new_column(cid) ==
    [cid |-> cid, data |-> 0, size |-> 0, capacity |-> 0, cells |-> <<>>]

\* column::grow_to: a fresh buffer; live elements are move-constructed into it
grow_to(c, tid, new_capacity) ==
    [c EXCEPT !.data = <<tid, c.cid, new_capacity>>,
              !.capacity = new_capacity,
              !.cells = [i \in 1 .. new_capacity |->
                            IF i <= c.size THEN c.cells[i] ELSE Raw]]

\* column::reserve
column_reserve(c, tid, new_capacity) ==
    IF new_capacity <= c.capacity THEN c ELSE grow_to(c, tid, new_capacity)

GrowCapacity(capacity) == IF capacity = 0 THEN kSeedCapacity ELSE capacity * 2

\* column::push_defaults
push_defaults(c, tid) ==
    LET g == IF c.size = c.capacity
             THEN grow_to(c, tid, GrowCapacity(c.capacity)) ELSE c
    IN  [g EXCEPT !.cells[g.size + 1] = DefaultValue, !.size = g.size + 1]

\* column::remove_swap: destroy row, move the last element in, destroy last
remove_swap(c, row) ==
    LET last_index == c.size - 1
        moved == IF row # last_index
                 THEN SetAt(c.cells, row, At(c.cells, last_index))
                 ELSE c.cells
    IN  [c EXCEPT !.cells = SetAt(moved, last_index, Raw),
                  !.size = c.size - 1]

\* column::remove_swap, its three calls followed on the set of slots that
\* hold a live element: info.dtor(dst); if (row != last_index)
\* info.move_ctor(dst, src); info.dtor(src).  TRUE when both destructor
\* calls are made on a live element.
remove_swap_destroys_live(c, row) ==
    LET last_index == c.size - 1
        live0 == 0 .. last_index
        live1 == live0 \ {row}
        live2 == IF row # last_index THEN live1 \cup {row} ELSE live1
    IN  row \in live0 /\ last_index \in live2

\* variant: the element count is not decremented
remove_swap_nodestroy_keepsize(c, row) ==
    LET last_index == c.size - 1
    IN  [c EXCEPT !.cells = IF row # last_index
                            THEN SetAt(c.cells, row, At(c.cells, last_index))
                            ELSE c.cells]

\* column::remove_swap_nodestroy: memcpy the last element over row
remove_swap_nodestroy(c, row) ==
    LET last_index == c.size - 1
    IN  [c EXCEPT !.cells = IF row # last_index
                            THEN SetAt(c.cells, row, At(c.cells, last_index))
                            ELSE c.cells,
                  !.size = c.size - 1]

\* the (size == capacity -> reserve; ++size) body of add_row_uninitialized
push_uninitialized(c, tid) ==
    LET g == IF c.size = c.capacity
             THEN column_reserve(c, tid, GrowCapacity(c.capacity)) ELSE c
    IN  [g EXCEPT !.size = g.size + 1]

\* table::add_row
add_row(t, tid, e) ==
    [t EXCEPT !.entities = Append(t.entities, e),
              !.columns = [i \in DOMAIN t.columns |-> push_defaults(t.columns[i], tid)]]

\* table::add_row_uninitialized
add_row_uninitialized(t, tid, e) ==
    [t EXCEPT !.entities = Append(t.entities, e),
              !.columns = [i \in DOMAIN t.columns |-> push_uninitialized(t.columns[i], tid)]]

\* the entity written to row by remove_row_swap / remove_row_swap_nodestroy
swapped_in_entity(t, row) ==
    IF row # Len(t.entities) - 1 THEN At(t.entities, Len(t.entities) - 1)
    ELSE INVALID_ENTITY

\* the entities vector after entities[row] = last; pop_back()
entities_remove_swap(ents, row) ==
    PopBack(IF row # Len(ents) - 1 THEN SetAt(ents, row, At(ents, Len(ents) - 1))
            ELSE ents)

\* table::remove_row_swap
remove_row_swap(t, row) ==
    [t EXCEPT !.entities = entities_remove_swap(t.entities, row),
              !.columns = [i \in DOMAIN t.columns |-> remove_swap(t.columns[i], row)]]

\* table::remove_row_swap: for (auto& c : columns) c.remove_swap(row)
remove_row_swap_destroys_live(t, row) ==
    \A i \in DOMAIN t.columns : remove_swap_destroys_live(t.columns[i], row)

\* table::remove_row_swap_nodestroy
remove_row_swap_nodestroy(t, row) ==
    [t EXCEPT !.entities = entities_remove_swap(t.entities, row),
              !.columns = [i \in DOMAIN t.columns |->
                              remove_swap_nodestroy(t.columns[i], row)]]

\* table::reserve
table_reserve(t, tid, val) ==
    [t EXCEPT !.columns = [i \in DOMAIN t.columns |->
                              column_reserve(t.columns[i], tid, val)]]

\* world_storage::create_table: one empty column per component of the key
make_table(key) ==
    [key |-> key, entities |-> <<>>,
     columns |-> [i \in DOMAIN key |-> new_column(key[i])]]

\* world_storage::find_table on key_tables_
find_table(kt, key) ==
    IF \E p \in kt : p[1] = key
    THEN (CHOOSE p \in kt : p[1] = key)[2]
    ELSE INVALID_TABLE

\* world_storage::get_or_create_table: <<tables, key_tables, schema, id>>
get_or_create_table(T, kt, sv, key) ==
    IF find_table(kt, key) # INVALID_TABLE
    THEN [tables |-> T, kt |-> kt, sv |-> sv, tid |-> find_table(kt, key)]
    ELSE [tables |-> Append(T, make_table(key)),
          kt |-> kt \cup {<<key, Len(T)>>},
          sv |-> sv + 1,
          tid |-> Len(T)]

\* world::get_table_for_signature
get_table_for_signature(T, kt, sv, ids) ==
    get_or_create_table(T, kt, sv, canonicalise(ids))

\* variant: the relocated entity's location is left as it was
fixup_swapped_skipped(L, swapped, tid, row) == L

\* location of the entity moved into the vacated row, if any
fixup_swapped(L, swapped, tid, row) ==
    IF entity_valid(swapped)
    THEN SetAt(L, entity_index(swapped), [tid |-> tid, row |-> row])
    ELSE L

\* variant: the shared value is taken from row 0 instead of the old row
migrated_column_row0(old_table, old_row, c, new_row) ==
    IF key_contains(old_table.key, c.cid)
    THEN [c EXCEPT !.cells = SetAt(c.cells, new_row,
              At(At(old_table.columns, column_index(old_table.key, c.cid)).cells,
                 0))]
    ELSE c

\* the value moved to the new row for column cid of the destination table:
\* move-constructed from the old row when the old key has cid, else untouched
migrated_column(old_table, old_row, c, new_row) ==
    IF key_contains(old_table.key, c.cid)
    THEN [c EXCEPT !.cells = SetAt(c.cells, new_row,
              At(At(old_table.columns, column_index(old_table.key, c.cid)).cells,
                 old_row))]
    ELSE c

\* the old row after its elements were moved out or destroyed
vacated_column(c, old_row) == [c EXCEPT !.cells = SetAt(c.cells, old_row, Raw)]

\* world::migrate_entity_to_table: <<tables, locations, new_row, version>>
migrate_entity_to_table(T, L, v, e, new_tid) ==
    LET loc == At(L, entity_index(e))
        old_tid == loc.tid
        old_row == loc.row
        old_table == At(T, old_tid)
        added == add_row_uninitialized(At(T, new_tid), new_tid, e)
        new_row == Len(added.entities) - 1
        new_table == [added EXCEPT !.columns =
                         [i \in DOMAIN added.columns |->
                             migrated_column(old_table, old_row, added.columns[i], new_row)]]
        emptied == [old_table EXCEPT !.columns =
                         [i \in DOMAIN old_table.columns |->
                             vacated_column(old_table.columns[i], old_row)]]
        swapped == swapped_in_entity(emptied, old_row)
        removed == remove_row_swap_nodestroy(emptied, old_row)
        L1 == fixup_swapped(L, swapped, old_tid, old_row)
        L2 == SetAt(L1, entity_index(e), [tid |-> new_tid, row |-> new_row])
    IN  [tables |-> SetAt(SetAt(T, new_tid, new_table), old_tid, removed),
         locations |-> L2,
         new_row |-> new_row,
         version |-> bump_version(v)]

\* world::remove_row_dense_and_fixup: <<tables, locations, version>>
remove_row_dense_and_fixup(T, L, v, e) ==
    LET loc == At(L, entity_index(e))
        t == At(T, loc.tid)
        swapped == swapped_in_entity(t, loc.row)
        L1 == fixup_swapped(L, swapped, loc.tid, loc.row)
    IN  [tables |-> SetAt(T, loc.tid, remove_row_swap(t, loc.row)),
         locations |-> SetAt(L1, entity_index(e), [tid |-> INVALID_TABLE, row |-> 0]),
         version |-> bump_version(v)]

\* variant: the slot's generation is not incremented
generations_after_destroy_same(gens, index) == gens

\* entity_manager::destroy_entity: ++generations_[index]
generations_after_destroy(gens, index) ==
    SetAt(gens, index, At(gens, index) + 1)

\* world::ensure_location_capacity
ensure_location_capacity(L, index) ==
    IF index >= Len(L)
    THEN L \o [i \in 1 .. (index + 1 - Len(L)) |-> [tid |-> INVALID_TABLE, row |-> 0]]
    ELSE L

\* the world's members as one record
World ==
    [gens |-> generations_, frag |-> fragment_, alive_count |-> alive_count_,
     tables |-> tables_, kt |-> key_tables_, sv |-> schema_version_,
     locs |-> locations_, version |-> version_]

\* world::create_entity (with entity_manager::create_entity): <<world, entity>>
create_entity(W) ==
    LET reuse == W.frag # <<>>
        index == IF reuse THEN At(W.frag, Len(W.frag) - 1) ELSE Len(W.gens)
        gens == IF reuse THEN W.gens ELSE Append(W.gens, 0)
        frag == IF reuse THEN PopBack(W.frag) ELSE W.frag
        e == entity_make(index, At(gens, index))
        L == ensure_location_capacity(W.locs, index)
        t == add_row(At(W.tables, empty_table_), empty_table_, e)
        row == Len(t.entities) - 1
    IN  [w |-> [W EXCEPT !.gens = gens,
                         !.frag = frag,
                         !.alive_count = W.alive_count + 1,
                         !.tables = SetAt(W.tables, empty_table_, t),
                         !.locs = SetAt(L, index, [tid |-> empty_table_, row |-> row]),
                         !.version = bump_version(W.version)],
         e |-> e]

\* world::destroy_entity (with entity_manager::destroy_entity)
destroy_entity(W, e) ==
    IF ~alive(W.gens, e) THEN W
    ELSE LET index == entity_index(e)
             loc == At(W.locs, index)
             r == IF loc.tid # INVALID_TABLE
                  THEN remove_row_dense_and_fixup(W.tables, W.locs, W.version, e)
                  ELSE [tables |-> W.tables, locations |-> W.locs,
                        version |-> W.version]
         IN  [W EXCEPT !.tables = r.tables,
                       !.locs = r.locations,
                       !.gens = generations_after_destroy(W.gens, index),
                       !.frag = Append(W.frag, index),
                       !.alive_count = W.alive_count - 1,
                       !.version = bump_version(r.version)]

\* world::destroy_entity: whether every destructor call it makes is made on
\* a live component
destroy_entity_destroys_live(W, e) ==
    IF ~alive(W.gens, e) THEN TRUE
    ELSE LET loc == At(W.locs, entity_index(e))
         IN  IF loc.tid # INVALID_TABLE
             THEN remove_row_swap_destroys_live(At(W.tables, loc.tid), loc.row)
             ELSE TRUE

\* copy_construct_at / default_construct_at on the new row
construct_at(t, row, cid, opt_value) ==
    LET ci == column_index(t.key, cid) + 1
    IN  [t EXCEPT !.columns[ci].cells =
            SetAt(@, row, IF opt_value = NoValue THEN DefaultValue ELSE opt_value)]

\* variant: no early return when the table already has the component; the
\* value is constructed over the existing one
add_component_unguarded(W, e, cid, opt_value) ==
    IF ~alive(W.gens, e) THEN W
    ELSE LET loc == At(W.locs, entity_index(e))
             old_table == At(W.tables, loc.tid)
         IN  IF key_contains(old_table.key, cid)
             THEN [W EXCEPT !.tables = SetAt(W.tables, loc.tid,
                                  construct_at(old_table, loc.row, cid, opt_value)),
                            !.version = bump_version(W.version)]
             ELSE LET ids == Append(old_table.key, cid)
                      g == get_table_for_signature(W.tables, W.kt, W.sv, ids)
                      m == migrate_entity_to_table(g.tables, W.locs, W.version, e, g.tid)
                      built == construct_at(At(m.tables, g.tid), m.new_row, cid, opt_value)
                  IN  [W EXCEPT !.tables = SetAt(m.tables, g.tid, built),
                                !.kt = g.kt,
                                !.sv = g.sv,
                                !.locs = m.locations,
                                !.version = bump_version(m.version)]

\* world::add_component(e, opt_value)
add_component(W, e, cid, opt_value) ==
    IF ~alive(W.gens, e) THEN W
    ELSE LET loc == At(W.locs, entity_index(e))
             old_table == At(W.tables, loc.tid)
         IN  IF key_contains(old_table.key, cid) THEN W
             ELSE LET ids == Append(old_table.key, cid)
                      g == get_table_for_signature(W.tables, W.kt, W.sv, ids)
                      m == migrate_entity_to_table(g.tables, W.locs, W.version, e, g.tid)
                      built == construct_at(At(m.tables, g.tid), m.new_row, cid, opt_value)
                  IN  [W EXCEPT !.tables = SetAt(m.tables, g.tid, built),
                                !.kt = g.kt,
                                !.sv = g.sv,
                                !.locs = m.locations,
                                !.version = bump_version(m.version)]

\* ids.erase(lower_bound(ids, cid))
erase_id(ids, cid) ==
    LET k == column_index(ids, cid) + 1
    IN  SubSeq(ids, 1, k - 1) \o SubSeq(ids, k + 1, Len(ids))

\* world::remove_component
remove_component(W, e, cid) ==
    IF ~alive(W.gens, e) THEN W
    ELSE LET loc == At(W.locs, entity_index(e))
             old_table == At(W.tables, loc.tid)
         IN  IF ~key_contains(old_table.key, cid) THEN W
             ELSE LET ids == erase_id(old_table.key, cid)
                      g == get_table_for_signature(W.tables, W.kt, W.sv, ids)
                      m == migrate_entity_to_table(g.tables, W.locs, W.version, e, g.tid)
                  IN  [W EXCEPT !.tables = m.tables,
                                !.kt = g.kt,
                                !.sv = g.sv,
                                !.locs = m.locations,
                                !.version = bump_version(m.version)]

\* variant: reserve does not bump the version
reserve_nobump(W, ids, count) ==
    LET g == get_or_create_table(W.tables, W.kt, W.sv, canonicalise(ids))
    IN  [W EXCEPT !.tables = SetAt(g.tables, g.tid,
                                   table_reserve(At(g.tables, g.tid), g.tid, count)),
                  !.kt = g.kt,
                  !.sv = g.sv]

\* world::reserve<Cs...>(count)
reserve(W, ids, count) ==
    LET g == get_or_create_table(W.tables, W.kt, W.sv, canonicalise(ids))
    IN  [W EXCEPT !.tables = SetAt(g.tables, g.tid,
                                   table_reserve(At(g.tables, g.tid), g.tid, count)),
                  !.kt = g.kt,
                  !.sv = g.sv,
                  !.version = bump_version(W.version)]

\* world::get_location
get_location(W, e) ==
    IF ~alive(W.gens, e) THEN [tid |-> INVALID_TABLE, row |-> 0]
    ELSE IF entity_index(e) >= Len(W.locs) THEN [tid |-> INVALID_TABLE, row |-> 0]
    ELSE At(W.locs, entity_index(e))

\* world::try_get_component: the address of the component (table, column,
\* row), or 0 for nullptr
try_get_component(W, e, cid) ==
    IF ~alive(W.gens, e) THEN 0
    ELSE IF entity_index(e) >= Len(W.locs) THEN 0
    ELSE LET loc == At(W.locs, entity_index(e))
         IN  IF loc.tid = INVALID_TABLE THEN 0
             ELSE IF key_contains(At(W.tables, loc.tid).key, cid)
                  THEN <<loc.tid, cid, loc.row>>
                  ELSE 0

(***************************************************************************)
(* Render cache                                                            *)
(***************************************************************************)
kNoVersion == -1

\* render_cache::contains_all_sorted, the two-index scan from (i, j)
RECURSIVE contains_all_from(_, _, _, _)
contains_all_from(haystack, needles, i, j) ==
    IF i < Len(haystack) /\ j < Len(needles)
    THEN IF At(haystack, i) = At(needles, j)
         THEN contains_all_from(haystack, needles, i + 1, j + 1)
         ELSE IF At(haystack, i) < At(needles, j)
              THEN contains_all_from(haystack, needles, i + 1, j)
              ELSE FALSE
    ELSE j = Len(needles)

contains_all_sorted(haystack, needles) == contains_all_from(haystack, needles, 0, 0)

\* table::column_index_fast: the index stored by build_lookup for cid
column_index_fast(key, cid) ==
    CHOOSE i \in 0 .. (Len(key) - 1) : At(key, i) = cid

\* table::get_array<C>: base address of the column of component cid
get_array(t, cid) == At(t.columns, column_index_fast(t.key, cid)).data

\* render_cache::build_matching: table ids in ascending order
RECURSIVE build_matching_from(_, _, _)
build_matching_from(T, required, tid) ==
    IF tid >= Len(T) THEN <<>>
    ELSE LET t == At(T, tid)
             rest == build_matching_from(T, required, tid + 1)
         IN  IF Len(t.key) < Len(required) THEN rest
             ELSE IF contains_all_sorted(t.key, required) THEN <<tid>> \o rest
             ELSE rest

build_matching(T, required) == build_matching_from(T, required, 0)

\* whether rebuild_blocks emits a block for a table with n rows
emits_block(n) == n # 0

\* render_cache::rebuild_blocks
RECURSIVE rebuild_blocks_from(_, _, _, _)
rebuild_blocks_from(T, cs, matching, k) ==
    IF k > Len(matching) THEN <<>>
    ELSE LET t == At(T, matching[k])
             n == Len(t.entities)
             rest == rebuild_blocks_from(T, cs, matching, k + 1)
         IN  IF emits_block(n)
             THEN <<[arrays |-> [i \in DOMAIN cs |-> get_array(t, cs[i])], n |-> n]>> \o rest
             ELSE rest

rebuild_blocks(T, cs, matching) == rebuild_blocks_from(T, cs, matching, 1)

\* the cache's members as one record
Cache ==
    [initialized |-> initialized_, required |-> required_,
     matching |-> matching_, blocks |-> blocks_,
     cached_version |-> cached_version_, rescanned |-> rescanned]

\* variant: refresh never takes the early return
refresh_is_noop_never(v, cached) == FALSE

\* whether refresh returns early
refresh_is_noop(v, cached) == v = cached

\* render_cache::refresh
refresh(C, W, cs) ==
    LET required == IF C.initialized THEN C.required ELSE canonicalise(cs)
        matching == build_matching(W.tables, required)
    IN  IF refresh_is_noop(W.version, C.cached_version)
        THEN [C EXCEPT !.initialized = TRUE, !.required = required,
                       !.rescanned = FALSE]
        ELSE [initialized |-> TRUE,
              required |-> required,
              matching |-> matching,
              blocks |-> rebuild_blocks(W.tables, cs, matching),
              cached_version |-> W.version,
              rescanned |-> TRUE]

(***************************************************************************)
(* Entity store and render cache: state machine                            *)
(***************************************************************************)
WorldInit ==
    /\ generations_ = <<>>
    /\ fragment_ = <<>>
    /\ alive_count_ = 0
    /\ tables_ = <<make_table(<<>>)>>
    /\ key_tables_ = {<<(<<>>), 0>>}
    /\ schema_version_ = 1
    /\ locations_ = <<>>
    /\ version_ = 0
    /\ initialized_ = FALSE
    /\ required_ = <<>>
    /\ matching_ = <<>>
    /\ blocks_ = <<>>
    /\ cached_version_ = kNoVersion
    /\ rescanned = FALSE
    /\ issued = {}
    /\ destroyed = {}
    /\ owned = <<>>
    /\ dirty = TRUE

EcsInit == WorldInit /\ cache_cs \in CacheTemplates

\* quiescent values of the store in the other specifications
EcsIdle == WorldInit /\ cache_cs = <<0>>

SetWorld(W) ==
    /\ generations_' = W.gens
    /\ fragment_' = W.frag
    /\ alive_count_' = W.alive_count
    /\ tables_' = W.tables
    /\ key_tables_' = W.kt
    /\ schema_version_' = W.sv
    /\ locations_' = W.locs
    /\ version_' = W.version

SetCache(C) ==
    /\ initialized_' = C.initialized
    /\ required_' = C.required
    /\ matching_' = C.matching
    /\ blocks_' = C.blocks
    /\ cached_version_' = C.cached_version
    /\ rescanned' = C.rescanned

\* the entities that were created and not destroyed since
Living == issued \ destroyed

\* handles a caller can hold: every handle ever issued and the default one
Handles == issued \cup {INVALID_ENTITY}

\* ids vectors passed as Cs... to reserve
IdVectors == {<<0>>, <<1, 0>>}

CreateEntity ==
    /\ version_ < MaxVersion
    /\ fragment_ # <<>> \/ Len(generations_) < MaxEntities
    /\ LET r == create_entity(World)
       IN  /\ SetWorld(r.w)
           /\ issued' = issued \cup {r.e}
           /\ owned' = [h \in DOMAIN owned \cup {r.e} |->
                            IF h = r.e THEN {} ELSE owned[h]]
    /\ dirty' = (dirty \/ worldVars' # worldVars)
    /\ rescanned' = FALSE
    /\ UNCHANGED <<cacheVars, cache_cs, destroyed>>
    /\ UNCHANGED nonEcsVars

DestroyEntity(e) ==
    /\ version_ < MaxVersion
    /\ SetWorld(destroy_entity(World, e))
    /\ destroyed' = IF alive(generations_, e) THEN destroyed \cup {e} ELSE destroyed
    /\ dirty' = (dirty \/ worldVars' # worldVars)
    /\ rescanned' = FALSE
    /\ UNCHANGED <<cacheVars, cache_cs, issued, owned>>
    /\ UNCHANGED nonEcsVars

AddComponent(e, cid, opt_value) ==
    /\ version_ < MaxVersion
    /\ SetWorld(add_component(World, e, cid, opt_value))
    /\ dirty' = (dirty \/ worldVars' # worldVars)
    /\ rescanned' = FALSE
    /\ owned' = IF e \in Living THEN [owned EXCEPT ![e] = @ \cup {cid}] ELSE owned
    /\ UNCHANGED <<cacheVars, cache_cs, issued, destroyed>>
    /\ UNCHANGED nonEcsVars

RemoveComponent(e, cid) ==
    /\ version_ < MaxVersion
    /\ SetWorld(remove_component(World, e, cid))
    /\ dirty' = (dirty \/ worldVars' # worldVars)
    /\ rescanned' = FALSE
    /\ owned' = IF e \in Living THEN [owned EXCEPT ![e] = @ \ {cid}] ELSE owned
    /\ UNCHANGED <<cacheVars, cache_cs, issued, destroyed>>
    /\ UNCHANGED nonEcsVars

Reserve(ids, count) ==
    /\ version_ < MaxVersion
    /\ SetWorld(reserve(World, ids, count))
    /\ dirty' = (dirty \/ worldVars' # worldVars)
    /\ rescanned' = FALSE
    /\ UNCHANGED <<cacheVars, cache_cs, issued, destroyed, owned>>
    /\ UNCHANGED nonEcsVars

Refresh ==
    /\ SetCache(refresh(Cache, World, cache_cs))
    /\ dirty' = FALSE
    /\ UNCHANGED <<worldVars, cache_cs, issued, destroyed, owned>>
    /\ UNCHANGED nonEcsVars

(***************************************************************************)
(* Depth test of the triangle pixel loop, for one pixel                    *)
(*                                                                         *)
(* Depths are fixed-point: kDepthOne units make 1.0.  A fragment is the    *)
(* interpolated NDC z and the packed colour the loop would store.  The     *)
(* frustum test rejects a triangle only when all three vertices are beyond *)
(* the same plane, so fragments with ndc.z < 0 or ndc.z >= 1 reach the     *)
(* loop.                                                                   *)
(***************************************************************************)
kDepthOne == 2
kClearDepth == 0

MaxNdcZ == 4
NumColours == 2

NdcZs == -1 .. MaxNdcZ
FragColours == 1 .. NumColours
ClearColours == {0, NumColours + 1}
Fragments == [ndcz : NdcZs, rgba : FragColours]

\* make_svtx: o.z = 1.0f - ndcz
buffer_depth(ndcz) == kDepthOne - ndcz

\* variant: the comparison is the other way round
depth_pass_less(z, stored) == z < stored

\* if (z > *zptr)
depth_pass(z, stored) == z > stored

\* ensure_offline_targets: colour and depth start zeroed
DepthIdle ==
    /\ zpix = kClearDepth
    /\ cpix = 0
    /\ frags = <<>>
    /\ nsub = 0

DepthInit ==
    /\ zpix = kClearDepth
    /\ cpix = 0
    /\ frags \in Fragments \X Fragments
    /\ nsub = 0

\* begin_cpu_frame: the depth buffer is zeroed; the colour buffer is filled
\* only when clear_rgba is non-zero
begin_cpu_frame(clear_rgba) ==
    /\ nsub = Len(frags)
    /\ zpix' = kClearDepth
    /\ cpix' = IF clear_rgba # 0 THEN clear_rgba ELSE cpix
    /\ frags' \in Fragments \X Fragments
    /\ nsub' = 0
    /\ UNCHANGED nonDepthVars

\* one iteration of the pixel loop that covers the pixel
DrawFragment ==
    /\ nsub < Len(frags)
    /\ LET f == frags[nsub + 1]
           z == buffer_depth(f.ndcz)
       IN  IF depth_pass(z, zpix)
           THEN zpix' = z /\ cpix' = f.rgba
           ELSE UNCHANGED <<zpix, cpix>>
    /\ nsub' = nsub + 1
    /\ UNCHANGED <<frags>>
    /\ UNCHANGED nonDepthVars

(***************************************************************************)
(* Component registry and the typed interface of the store                 *)
(*                                                                         *)
(* Component types are named 0 .. NumComps - 1; ids are handed out in      *)
(* registration order, so a type's id need not equal its name.             *)
(* get_id<T>() for a type that was never registered fails its assert; with *)
(* asserts compiled out it reads through the end iterator.  Both outcomes  *)
(* are kept: termination, or continuing with some id the registry holds.   *)
(***************************************************************************)
MaxRegVersion == 5
AssertFailed == -3

Types == 0 .. (NumComps - 1)

\* no register_component call has returned yet
NoCall == [T |-> INVALID_ID, id |-> INVALID_ID]

\* the registry of the other specifications: every type registered, in order
RegIdle ==
    /\ type_ids_ = [T \in Types |-> T]
    /\ type_infos_ = [i \in 1 .. NumComps |-> i - 1]
    /\ halted = FALSE
    /\ reg_ret = NoCall
    /\ reg_order = [i \in 1 .. NumComps |-> i - 1]

RegInit ==
    /\ type_ids_ = <<>>
    /\ type_infos_ = <<>>
    /\ halted = FALSE
    /\ reg_ret = NoCall
    /\ reg_order = <<>>

\* component_registry::add<T> without the lookup in type_ids_
registry_add_fresh(ids, infos, T) ==
    [type_ids |-> [U \in DOMAIN ids \cup {T} |->
                      IF U = T THEN Len(infos) ELSE ids[U]],
     type_infos |-> Append(infos, T),
     id |-> Len(infos)]

\* component_registry::add<T>
registry_add(ids, infos, T) ==
    IF T \in DOMAIN ids
    THEN [type_ids |-> ids, type_infos |-> infos, id |-> ids[T]]
    ELSE [type_ids |-> [U \in DOMAIN ids \cup {T} |->
                            IF U = T THEN Len(infos) ELSE ids[U]],
          type_infos |-> Append(infos, T),
          id |-> Len(infos)]

\* component_registry::get_id<T>: every value the call can produce
get_id(ids, T) ==
    IF T \in DOMAIN ids THEN {ids[T]}
    ELSE {AssertFailed} \cup {ids[U] : U \in DOMAIN ids}

\* outcomes of world::add_component<T>(e, opt_value)
add_component_of(W, ids, e, T, opt_value) ==
    IF ~alive(W.gens, e) THEN {[halted |-> FALSE, w |-> W]}
    ELSE {IF cid = AssertFailed THEN [halted |-> TRUE, w |-> W]
          ELSE [halted |-> FALSE, w |-> add_component(W, e, cid, opt_value)] :
            cid \in get_id(ids, T)}

\* outcomes of world::remove_component<T>(e)
remove_component_of(W, ids, e, T) ==
    IF ~alive(W.gens, e) THEN {[halted |-> FALSE, w |-> W]}
    ELSE {IF cid = AssertFailed THEN [halted |-> TRUE, w |-> W]
          ELSE [halted |-> FALSE, w |-> remove_component(W, e, cid)] :
            cid \in get_id(ids, T)}

\* outcomes of world::try_get_component<T>(e)
try_get_component_of(W, ids, e, T) ==
    IF ~alive(W.gens, e) THEN {[halted |-> FALSE, ptr |-> 0]}
    ELSE {IF cid = AssertFailed THEN [halted |-> TRUE, ptr |-> 0]
          ELSE [halted |-> FALSE, ptr |-> try_get_component(W, e, cid)] :
            cid \in get_id(ids, T)}

\* world::register_component<T>
RegisterComponent(T) ==
    /\ ~halted
    /\ LET r == registry_add(type_ids_, type_infos_, T)
       IN  /\ type_ids_' = r.type_ids
           /\ type_infos_' = r.type_infos
           /\ reg_ret' = [T |-> T, id |-> r.id]
    /\ reg_order' = IF \E k \in DOMAIN reg_order : reg_order[k] = T
                    THEN reg_order ELSE Append(reg_order, T)
    /\ UNCHANGED <<halted, ecsVars>>
    /\ UNCHANGED nonRegVars

AddComponentOf(e, T, opt_value) ==
    /\ ~halted
    /\ version_ < MaxRegVersion
    /\ \E o \in add_component_of(World, type_ids_, e, T, opt_value) :
          /\ halted' = o.halted
          /\ SetWorld(o.w)
    /\ dirty' = (dirty \/ worldVars' # worldVars)
    /\ rescanned' = FALSE
    /\ owned' = IF e \in Living /\ T \in DOMAIN type_ids_
                THEN [owned EXCEPT ![e] = @ \cup {type_ids_[T]}] ELSE owned
    /\ UNCHANGED <<cacheVars, cache_cs, issued, destroyed, type_ids_, type_infos_,
                   reg_ret, reg_order>>
    /\ UNCHANGED nonRegVars

RemoveComponentOf(e, T) ==
    /\ ~halted
    /\ version_ < MaxRegVersion
    /\ \E o \in remove_component_of(World, type_ids_, e, T) :
          /\ halted' = o.halted
          /\ SetWorld(o.w)
    /\ dirty' = (dirty \/ worldVars' # worldVars)
    /\ rescanned' = FALSE
    /\ owned' = IF e \in Living /\ T \in DOMAIN type_ids_
                THEN [owned EXCEPT ![e] = @ \ {type_ids_[T]}] ELSE owned
    /\ UNCHANGED <<cacheVars, cache_cs, issued, destroyed, type_ids_, type_infos_,
                   reg_ret, reg_order>>
    /\ UNCHANGED nonRegVars

\* create_entity / destroy_entity take no component type
EntityLifecycle ==
    /\ ~halted
    /\ version_ < MaxRegVersion
    /\ \/ CreateEntity
       \/ \E e \in Handles : DestroyEntity(e)

(***************************************************************************)
(* Frame ring of the presentation device (gfx_dx11::pimpl) and the         *)
(* renderer calls that use it.  Every block of the source that runs with   *)
(* mtx held is one step.  The recording is the number of frames it holds.  *)
(* Colour and depth memory of a slot is one flag: entirely zero or not.    *)
(***************************************************************************)
kRingSize == 3
CLEAR_WORKERS == 5
MaxRingGen == 2
MaxFlushes == 2
MaxBbQueue == 1
MaxRecFrames == 1

RingSlots == 0 .. (kRingSize - 1)
\* a function over the ring slots, summed
RECURSIVE SumOver(_, _)
SumOver(f, S) ==
    IF S = {} THEN 0
    ELSE LET i == CHOOSE j \in S : TRUE IN f[i] + SumOver(f, S \ {i})

\* the clear workers are interchangeable: they keep no state between two
\* slots, so the pool is the number of workers on each slot and the number
\* that returned; the others are inside cv_clear.wait
CwWaiting == CLEAR_WORKERS - cw_exited - SumOver(cw_slots, RingSlots)

\* a null colour or depth pointer of a cpu_frame
NullBuf == -1

\* cpu_frame{}
EmptyFrame == [color |-> NullBuf, z |-> NullBuf, slot |-> 0, generation |-> 0]

\* cpu_frame::valid(); the device's w and h are non-zero
valid(f) == f.color # NullBuf /\ f.z # NullBuf

RingIdle ==
    /\ slot_state = [i \in RingSlots |-> "free"]
    /\ slot_gen = [i \in RingSlots |-> 1]
    /\ slot_zero = [i \in RingSlots |-> TRUE]
    /\ latest_slot_valid = FALSE
    /\ latest_slot = 0
    /\ latest_gen = 0
    /\ latest_rec_valid = FALSE
    /\ latest_rec_index = 0
    /\ clear_q = <<>>
    /\ bb_q = 0
    /\ next_marker = 1
    /\ flush_marker_requested = 0
    /\ flush_marker_done = 0
    /\ shutting_down = FALSE
    /\ recording = FALSE
    /\ rec_frames = 0
    /\ playing = FALSE
    /\ looping = FALSE
    /\ play_cursor = 0
    /\ pb_ret = "none"
    /\ ppc = "wait"
    /\ p_slot = 0
    /\ cw_slots = [i \in RingSlots |-> 0]
    /\ cw_exited = 0
    /\ rpc = "idle"
    /\ marker = 0
    /\ cur_frame = EmptyFrame
    /\ kept_frame = EmptyFrame
    /\ framebuffer = NullBuf
    /\ zbuffer = NullBuf
    /\ began = FALSE

\* the device after gfx_dx11::create: create_ring zeroes every slot and
\* clear_slot_cpu runs on each before the threads start
RingInit == RingIdle

\* the renderer's thread is between two calls on the device
RendererReady == rpc \in {"idle", "flushed"}

\* what locking mtx again on the thread that holds it can do: the lock is
\* entered a second time, the thread blocks on itself, or the library
\* reports the deadlock and the noexcept function terminates the process
RelockOutcomes == {"reentered", "blocked", "terminated"}

\* mtx is not held for good by a thread blocked on itself, and the process
\* is alive
mtx_available == rpc \notin {"relock", "terminated"}

FreeSlots(st) == {i \in RingSlots : st[i] = "free"}

\* variant: the scan takes the first slot whatever its state
acquire_slot_try_any(st, sd) ==
    IF sd THEN NullBuf ELSE 0

\* acquire_slot_try: the slot the scan stops at, or none
acquire_slot_try(st, sd) ==
    IF sd \/ FreeSlots(st) = {}
    THEN NullBuf
    ELSE CHOOSE i \in FreeSlots(st) : \A j \in FreeSlots(st) : i <= j

\* begin_cpu_frame(clear_rgba), live mode: try_begin_frame,
\* bind_targets_from_frame, then clear_color_rgba when clear_rgba is not 0
begin_cpu_frame_live_rgba(clear_rgba) ==
    /\ RendererReady
    /\ \A i \in RingSlots : slot_gen[i] <= MaxRingGen
    /\ LET i == acquire_slot_try(slot_state, shutting_down) IN
         IF i = NullBuf
         THEN /\ cur_frame' = EmptyFrame
              /\ began' = FALSE
              /\ UNCHANGED <<slot_state, slot_zero, framebuffer, zbuffer>>
         ELSE /\ slot_state' = [slot_state EXCEPT ![i] = "acquired"]
              /\ cur_frame' = [color |-> i, z |-> i, slot |-> i,
                               generation |-> slot_gen[i]]
              /\ framebuffer' = cur_frame'.color
              /\ zbuffer' = cur_frame'.z
              /\ began' = TRUE
              /\ slot_zero' = IF clear_rgba # 0
                              THEN [slot_zero EXCEPT ![i] = FALSE]
                              ELSE slot_zero
    /\ rpc' = "idle"
    /\ UNCHANGED <<slot_gen, latestVars, latestRecVars, queueVars, flushVars,
                   shutting_down, presentVars, cwVars, marker, recVars,
                   kept_frame>>
    /\ UNCHANGED nonRingVars

\* begin_cpu_frame with the clear colour 0 the renderer starts with
begin_cpu_frame_live == begin_cpu_frame_live_rgba(0)

\* draw_world and the passes after it store into the bound targets; they
\* return at once when framebuffer.data or zbuffer.data is null
draw_world_targets ==
    /\ RendererReady
    /\ framebuffer # NullBuf
    /\ zbuffer # NullBuf
    /\ slot_zero' = [slot_zero EXCEPT ![framebuffer] = FALSE, ![zbuffer] = FALSE]
    /\ rpc' = "idle"
    /\ UNCHANGED <<slotVars, latestVars, latestRecVars, queueVars, flushVars,
                   shutting_down, presentVars, cwVars, marker, cur_frame,
                   framebuffer, zbuffer, began, recVars, kept_frame>>
    /\ UNCHANGED nonRingVars

\* enqueue_present_latest(slot, gen), the block under mtx
enqueue_present_latest(slot, gen) ==
    LET accepted == /\ ~shutting_down
                    /\ slot_state[slot] = "acquired"
                    /\ slot_gen[slot] = gen
        st1 == IF accepted THEN [slot_state EXCEPT ![slot] = "queued"]
               ELSE slot_state
        drop == /\ accepted
                /\ latest_slot_valid
                /\ st1[latest_slot] = "queued"
                /\ slot_gen[latest_slot] = latest_gen
    IN /\ slot_state' = IF drop
                        THEN [st1 EXCEPT ![latest_slot] = "clearing"]
                        ELSE st1
       /\ slot_gen' = IF drop
                      THEN [slot_gen EXCEPT ![latest_slot] = @ + 1]
                      ELSE slot_gen
       /\ clear_q' = IF drop THEN Append(clear_q, latest_slot) ELSE clear_q
       /\ latest_slot_valid' = (accepted \/ latest_slot_valid)
       /\ latest_slot' = IF accepted THEN slot ELSE latest_slot
       /\ latest_gen' = IF accepted THEN gen ELSE latest_gen
       /\ latest_rec_valid' = (latest_rec_valid /\ ~accepted)

\* variant: the renderer keeps its targets bound to the frame it presented
present_bound ==
    /\ RendererReady
    /\ valid(cur_frame)
    /\ enqueue_present_latest(cur_frame.slot, cur_frame.generation)
    /\ cur_frame' = EmptyFrame
    /\ rpc' = "idle"
    /\ UNCHANGED <<bb_q, flushVars, shutting_down, presentVars, cwVars, marker,
                   began, latest_rec_index, recVars, kept_frame, slot_zero,
                   framebuffer, zbuffer>>
    /\ UNCHANGED nonRingVars

\* optimized_renderer_rt::present with gfx_dx11::present
present ==
    /\ RendererReady
    /\ valid(cur_frame)
    /\ enqueue_present_latest(cur_frame.slot, cur_frame.generation)
    /\ cur_frame' = EmptyFrame
    /\ framebuffer' = NullBuf
    /\ zbuffer' = NullBuf
    /\ rpc' = "idle"
    /\ UNCHANGED <<bb_q, flushVars, shutting_down, presentVars, cwVars, marker,
                   began, latest_rec_index, recVars, kept_frame, slot_zero>>
    /\ UNCHANGED nonRingVars

\* mark_slot_clearing_and_enqueue(slot): the slots and clear_q after it
mark_slot_clearing_and_enqueue(slot) ==
    IF slot_state[slot] \in {"acquired", "queued", "presenting"}
    THEN [st |-> [slot_state EXCEPT ![slot] = "clearing"],
          gen |-> [slot_gen EXCEPT ![slot] = @ + 1],
          q |-> Append(clear_q, slot)]
    ELSE [st |-> slot_state, gen |-> slot_gen, q |-> clear_q]

\* gfx_dx11::record_submit(f), the block under mtx, for a valid f:
\* copy_frame_to_recording appends a frame
record_submit(f) ==
    IF recording
    THEN LET r == mark_slot_clearing_and_enqueue(f.slot) IN
           /\ rec_frames' = rec_frames + 1
           /\ slot_state' = r.st
           /\ slot_gen' = r.gen
           /\ clear_q' = r.q
    ELSE UNCHANGED <<rec_frames, slot_state, slot_gen, clear_q>>

\* optimized_renderer_offline::record_frame_only with gfx_dx11::record_submit
record_frame_only ==
    /\ RendererReady
    /\ valid(cur_frame)
    /\ recording => rec_frames < MaxRecFrames
    /\ record_submit(cur_frame)
    /\ cur_frame' = EmptyFrame
    /\ framebuffer' = NullBuf
    /\ zbuffer' = NullBuf
    /\ rpc' = "idle"
    /\ UNCHANGED <<latestVars, latestRecVars, bb_q, flushVars, shutting_down,
                   presentVars, cwVars, marker, began, recording, playing,
                   looping, play_cursor, pb_ret, kept_frame, slot_zero>>
    /\ UNCHANGED nonRingVars

\* gfx_dx11::record_begin / record_begin_locked
record_begin ==
    /\ RendererReady
    /\ rec_frames' = 0
    /\ recording' = TRUE
    /\ playing' = FALSE
    /\ looping' = FALSE
    /\ play_cursor' = 0
    /\ latest_rec_valid' = FALSE
    /\ rpc' = "idle"
    /\ UNCHANGED <<slotVars, latestVars, latest_rec_index, queueVars, flushVars,
                   shutting_down, presentVars, cwVars, marker, cur_frame,
                   framebuffer, zbuffer, began, pb_ret, kept_frame, slot_zero>>
    /\ UNCHANGED nonRingVars

\* gfx_dx11::record_end / record_end_locked
record_end ==
    /\ RendererReady
    /\ recording' = FALSE
    /\ play_cursor' = 0
    /\ rpc' = "idle"
    /\ UNCHANGED <<slotVars, latestVars, latestRecVars, queueVars, flushVars,
                   shutting_down, presentVars, cwVars, marker, cur_frame,
                   framebuffer, zbuffer, began, rec_frames, playing, looping,
                   pb_ret, kept_frame, slot_zero>>
    /\ UNCHANGED nonRingVars

\* gfx_dx11::playback_start(loop) / playback_start_locked
playback_start(loop) ==
    /\ RendererReady
    /\ playing' = (rec_frames # 0)
    /\ looping' = (rec_frames # 0 /\ loop)
    /\ play_cursor' = 0
    /\ latest_rec_valid' = FALSE
    /\ rpc' = "idle"
    /\ UNCHANGED <<slotVars, latestVars, latest_rec_index, queueVars, flushVars,
                   shutting_down, presentVars, cwVars, marker, cur_frame,
                   framebuffer, zbuffer, began, recording, rec_frames, pb_ret,
                   kept_frame, slot_zero>>
    /\ UNCHANGED nonRingVars

\* gfx_dx11::playback_stop / playback_stop_locked
playback_stop ==
    /\ RendererReady
    /\ playing' = FALSE
    /\ looping' = FALSE
    /\ latest_rec_valid' = FALSE
    /\ rpc' = "idle"
    /\ UNCHANGED <<slotVars, latestVars, latest_rec_index, queueVars, flushVars,
                   shutting_down, presentVars, cwVars, marker, cur_frame,
                   framebuffer, zbuffer, began, recording, rec_frames,
                   play_cursor, pb_ret, kept_frame, slot_zero>>
    /\ UNCHANGED nonRingVars

\* drop_latest_slot_if_queued_locked: the slots and clear_q after it
drop_latest_slot_if_queued_locked ==
    IF /\ latest_slot_valid
       /\ slot_state[latest_slot] = "queued"
       /\ slot_gen[latest_slot] = latest_gen
    THEN [st |-> [slot_state EXCEPT ![latest_slot] = "clearing"],
          gen |-> [slot_gen EXCEPT ![latest_slot] = @ + 1],
          q |-> Append(clear_q, latest_slot)]
    ELSE [st |-> slot_state, gen |-> slot_gen, q |-> clear_q]

\* enqueue_recorded_latest(rec_index), the block under mtx
enqueue_recorded_latest(rec_index) ==
    IF shutting_down \/ rec_index >= rec_frames
    THEN UNCHANGED <<slotVars, latestVars, latestRecVars, clear_q>>
    ELSE LET r == drop_latest_slot_if_queued_locked IN
           /\ latest_rec_valid' = TRUE
           /\ latest_rec_index' = rec_index
           /\ latest_slot_valid' = FALSE
           /\ slot_state' = r.st
           /\ slot_gen' = r.gen
           /\ clear_q' = r.q
           /\ UNCHANGED <<latest_slot, latest_gen>>

\* gfx_dx11::playback_present_next: with mtx held it runs
\* playback_present_next_nolock, whose enqueue_recorded_latest locks mtx
\* again on the same thread
playback_present_next ==
    /\ RendererReady
    /\ IF ~playing \/ rec_frames = 0
       THEN /\ pb_ret' = "false"
            /\ rpc' = "idle"
            /\ UNCHANGED <<slotVars, latestVars, latestRecVars, clear_q,
                           playing, play_cursor>>
       ELSE IF play_cursor >= rec_frames /\ ~looping
       THEN /\ playing' = FALSE
            /\ pb_ret' = "false"
            /\ rpc' = "idle"
            /\ UNCHANGED <<slotVars, latestVars, latestRecVars, clear_q,
                           play_cursor>>
       ELSE LET idx == IF play_cursor >= rec_frames THEN 0 ELSE play_cursor IN
              /\ play_cursor' = idx + 1
              /\ \E outcome \in RelockOutcomes :
                    IF outcome = "reentered"
                    THEN /\ enqueue_recorded_latest(idx)
                         /\ pb_ret' = "true"
                         /\ rpc' = "idle"
                    ELSE /\ rpc' = IF outcome = "blocked" THEN "relock"
                                   ELSE "terminated"
                         /\ UNCHANGED <<slotVars, latestVars, latestRecVars,
                                        clear_q, pb_ret>>
              /\ UNCHANGED playing
    /\ UNCHANGED <<bb_q, flushVars, shutting_down, presentVars, cwVars, marker,
                   cur_frame, framebuffer, zbuffer, began, recording,
                   rec_frames, looping, kept_frame, slot_zero>>
    /\ UNCHANGED nonRingVars

\* the caller keeps a copy of the cpu_frame it was given
KeepFrame ==
    /\ RendererReady
    /\ valid(cur_frame)
    /\ kept_frame # cur_frame
    /\ kept_frame' = cur_frame
    /\ rpc' = "idle"
    /\ UNCHANGED <<slotVars, latestVars, latestRecVars, queueVars, flushVars,
                   shutting_down, presentVars, cwVars, marker, cur_frame,
                   framebuffer, zbuffer, began, recVars, slot_zero>>
    /\ UNCHANGED nonRingVars

\* gfx_dx11::present(f) called with the caller's copy
gfx_present(f) ==
    /\ RendererReady
    /\ valid(f)
    /\ enqueue_present_latest(f.slot, f.generation)
    /\ rpc' = "idle"
    /\ UNCHANGED <<bb_q, flushVars, shutting_down, presentVars, cwVars, marker,
                   cur_frame, framebuffer, zbuffer, began, latest_rec_index,
                   recVars, kept_frame, slot_zero>>
    /\ UNCHANGED nonRingVars

\* gfx_dx11::record_submit(f) called with the caller's copy
gfx_record_submit(f) ==
    /\ RendererReady
    /\ valid(f)
    /\ recording => rec_frames < MaxRecFrames
    /\ record_submit(f)
    /\ rpc' = "idle"
    /\ UNCHANGED <<latestVars, latestRecVars, bb_q, flushVars, shutting_down,
                   presentVars, cwVars, marker, cur_frame, framebuffer, zbuffer,
                   began, recording, playing, looping, play_cursor, pb_ret,
                   kept_frame, slot_zero>>
    /\ UNCHANGED nonRingVars

\* gfx_dx11::clear_backbuffer_rgba8 / enqueue_backbuffer_clear
clear_backbuffer_rgba8 ==
    /\ RendererReady
    /\ bb_q < MaxBbQueue
    /\ bb_q' = IF shutting_down THEN bb_q ELSE bb_q + 1
    /\ rpc' = "idle"
    /\ UNCHANGED <<slotVars, latestVars, latestRecVars, clear_q, flushVars,
                   shutting_down, presentVars, cwVars, marker, cur_frame,
                   framebuffer, zbuffer, began, recVars, kept_frame, slot_zero>>
    /\ UNCHANGED nonRingVars

\* flush_blocking: take a marker and request it
FlushRequest ==
    /\ RendererReady
    /\ next_marker <= MaxFlushes
    /\ marker' = next_marker
    /\ next_marker' = next_marker + 1
    /\ flush_marker_requested' = next_marker
    /\ rpc' = "flush_wait"
    /\ UNCHANGED <<slotVars, latestVars, latestRecVars, queueVars,
                   flush_marker_done, shutting_down, presentVars, cwVars,
                   cur_frame, framebuffer, zbuffer, began, recVars, kept_frame,
                   slot_zero>>
    /\ UNCHANGED nonRingVars

\* predicate of cv_flush.wait in flush_blocking
FlushWaitPredicate(sd, done, requested, m) ==
    sd \/ (done >= m /\ requested = 0)

\* flush_blocking: cv_flush.wait returns and so does flush()
FlushReturn ==
    /\ rpc = "flush_wait"
    /\ FlushWaitPredicate(shutting_down, flush_marker_done,
                          flush_marker_requested, marker)
    /\ rpc' = "flushed"
    /\ UNCHANGED <<slotVars, latestVars, latestRecVars, queueVars, flushVars,
                   shutting_down, presentVars, cwVars, marker, cur_frame,
                   framebuffer, zbuffer, began, recVars, kept_frame, slot_zero>>
    /\ UNCHANGED nonRingVars

\* the busy test of the flush marker in present_loop
flush_busy ==
    \/ latest_slot_valid
    \/ latest_rec_valid
    \/ clear_q # <<>>
    \/ \E i \in RingSlots : slot_state[i] \in {"queued", "presenting"}

\* present_loop with mtx held, from the bb_q loop on: pop one back-buffer
\* clear and run it unlocked, or complete the flush marker and take the
\* latest recorded frame or the latest slot
PresentLocked ==
    IF bb_q > 0
    THEN /\ bb_q' = bb_q - 1
         /\ ppc' = "bb_clear"
         /\ UNCHANGED <<slotVars, latestVars, latest_rec_valid, clear_q,
                        flushVars, p_slot>>
    ELSE /\ IF flush_marker_requested # 0 /\ ~flush_busy
            THEN /\ flush_marker_done' = flush_marker_requested
                 /\ flush_marker_requested' = 0
            ELSE UNCHANGED <<flush_marker_done, flush_marker_requested>>
         /\ latest_slot_valid' = FALSE
         /\ latest_rec_valid' = FALSE
         /\ IF latest_rec_valid
            THEN LET r == drop_latest_slot_if_queued_locked IN
                   /\ slot_state' = r.st
                   /\ slot_gen' = r.gen
                   /\ clear_q' = r.q
                   /\ ppc' = "present_rec"
                   /\ UNCHANGED p_slot
            ELSE IF latest_slot_valid
            THEN IF /\ slot_state[latest_slot] = "queued"
                    /\ slot_gen[latest_slot] = latest_gen
                 THEN /\ slot_state' =
                            [slot_state EXCEPT ![latest_slot] = "presenting"]
                      /\ ppc' = "present"
                      /\ p_slot' = latest_slot
                      /\ UNCHANGED <<slot_gen, clear_q>>
                 ELSE /\ IF slot_state[latest_slot] \in {"queued", "presenting"}
                         THEN /\ slot_state' = [slot_state EXCEPT
                                                  ![latest_slot] = "clearing"]
                              /\ clear_q' = Append(clear_q, latest_slot)
                         ELSE UNCHANGED <<slot_state, clear_q>>
                      /\ ppc' = "wait"
                      /\ UNCHANGED <<slot_gen, p_slot>>
            ELSE /\ ppc' = "wait"
                 /\ UNCHANGED <<slot_state, slot_gen, clear_q, p_slot>>
         /\ UNCHANGED <<latest_slot, latest_gen, bb_q, next_marker>>

\* predicate of cv_present.wait in present_loop
PresentWaitPredicate ==
    \/ shutting_down
    \/ latest_slot_valid
    \/ latest_rec_valid
    \/ bb_q > 0
    \/ flush_marker_requested # 0

\* present_loop: cv_present.wait returns, then the locked block
PresentWake ==
    /\ ppc = "wait"
    /\ mtx_available
    /\ PresentWaitPredicate
    /\ IF shutting_down
       THEN /\ ppc' = "exited"
            /\ UNCHANGED <<slotVars, latestVars, latest_rec_valid, queueVars,
                           flushVars, p_slot>>
       ELSE PresentLocked
    /\ UNCHANGED <<shutting_down, cwVars, rendVars, latest_rec_index, recVars,
                   kept_frame, slot_zero>>
    /\ UNCHANGED nonRingVars

\* present_loop: clear_backbuffer_rgba8_now returned, lk.lock()
PresentBbDone ==
    /\ ppc = "bb_clear"
    /\ mtx_available
    /\ PresentLocked
    /\ UNCHANGED <<shutting_down, cwVars, rendVars, latest_rec_index, recVars,
                   kept_frame, slot_zero>>
    /\ UNCHANGED nonRingVars

\* present_loop: the recorded frame was looked up under mtx, uploaded and
\* presented
PresentRecDone ==
    /\ ppc = "present_rec"
    /\ mtx_available
    /\ ppc' = "wait"
    /\ UNCHANGED <<slotVars, latestVars, latestRecVars, queueVars, flushVars,
                   shutting_down, p_slot, cwVars, rendVars, recVars, kept_frame,
                   slot_zero>>
    /\ UNCHANGED nonRingVars

\* present_loop: the slot was uploaded and presented; release it to be cleared
PresentDone ==
    /\ ppc = "present"
    /\ mtx_available
    /\ IF slot_state[p_slot] = "presenting"
       THEN /\ slot_state' = [slot_state EXCEPT ![p_slot] = "clearing"]
            /\ slot_gen' = [slot_gen EXCEPT ![p_slot] = @ + 1]
            /\ clear_q' = Append(clear_q, p_slot)
       ELSE UNCHANGED <<slotVars, clear_q>>
    /\ ppc' = "wait"
    /\ UNCHANGED <<latestVars, latestRecVars, bb_q, flushVars, shutting_down,
                   p_slot, cwVars, rendVars, recVars, kept_frame, slot_zero>>
    /\ UNCHANGED nonRingVars

\* clear_loop_worker: cv_clear.wait returns; exit or pop the front slot
ClearTake ==
    /\ CwWaiting > 0
    /\ mtx_available
    /\ shutting_down \/ clear_q # <<>>
    /\ IF shutting_down /\ clear_q = <<>>
       THEN /\ cw_exited' = cw_exited + 1
            /\ UNCHANGED <<clear_q, cw_slots>>
       ELSE /\ cw_slots' = [cw_slots EXCEPT ![Head(clear_q)] = @ + 1]
            /\ clear_q' = Tail(clear_q)
            /\ UNCHANGED cw_exited
    /\ UNCHANGED <<slotVars, latestVars, latestRecVars, bb_q, flushVars,
                   shutting_down, presentVars, rendVars, recVars, kept_frame,
                   slot_zero>>
    /\ UNCHANGED nonRingVars

\* variant: the worker frees the slot without clear_slot_cpu
ClearDone_uncleared(i) ==
    /\ cw_slots[i] > 0
    /\ mtx_available
    /\ slot_state' = IF slot_state[i] = "clearing"
                     THEN [slot_state EXCEPT ![i] = "free"]
                     ELSE slot_state
    /\ cw_slots' = [cw_slots EXCEPT ![i] = @ - 1]
    /\ UNCHANGED <<slot_gen, latestVars, latestRecVars, queueVars, flushVars,
                   shutting_down, presentVars, cw_exited, rendVars, recVars,
                   kept_frame, slot_zero>>
    /\ UNCHANGED nonRingVars

\* clear_loop_worker: clear_slot_cpu ran on slot i; the slot becomes free.
\* The memset leaves the slot zero unless the renderer has it bound and
\* stores into it at the same time.
ClearDone(i) ==
    /\ cw_slots[i] > 0
    /\ mtx_available
    /\ slot_zero' = [slot_zero EXCEPT ![i] = (framebuffer # i /\ zbuffer # i)]
    /\ slot_state' = IF slot_state[i] = "clearing"
                     THEN [slot_state EXCEPT ![i] = "free"]
                     ELSE slot_state
    /\ cw_slots' = [cw_slots EXCEPT ![i] = @ - 1]
    /\ UNCHANGED <<slot_gen, latestVars, latestRecVars, queueVars, flushVars,
                   shutting_down, presentVars, cw_exited, rendVars, recVars,
                   kept_frame>>
    /\ UNCHANGED nonRingVars

\* destroy_all: stop_threads sets shutting_down and notifies every waiter
stop_threads ==
    /\ RendererReady
    /\ shutting_down' = TRUE
    /\ rpc' = "stopping"
    /\ UNCHANGED <<slotVars, latestVars, latestRecVars, queueVars, flushVars,
                   presentVars, cwVars, marker, cur_frame, framebuffer, zbuffer,
                   began, recVars, kept_frame, slot_zero>>
    /\ UNCHANGED nonRingVars

\* stop_threads: the joins return
JoinThreads ==
    /\ rpc = "stopping"
    /\ ppc = "exited"
    /\ cw_exited = CLEAR_WORKERS
    /\ rpc' = "destroyed"
    /\ UNCHANGED <<slotVars, latestVars, latestRecVars, queueVars, flushVars,
                   shutting_down, presentVars, cwVars, marker, cur_frame,
                   framebuffer, zbuffer, began, recVars, kept_frame, slot_zero>>
    /\ UNCHANGED nonRingVars

\* gfx_dx11::pending_frames
pending_frames ==
    bb_q + Len(clear_q) + (IF latest_slot_valid THEN 1 ELSE 0)
    + (IF latest_rec_valid THEN 1 ELSE 0)
    + Cardinality({i \in RingSlots :
                      slot_state[i] \in {"queued", "presenting", "clearing"}})

\* the renderer presents every frame, clears the back buffer and flushes
RingNext ==
    \/ begin_cpu_frame_live
    \/ present
    \/ clear_backbuffer_rgba8
    \/ FlushRequest
    \/ FlushReturn
    \/ PresentWake
    \/ PresentBbDone
    \/ PresentDone
    \/ ClearTake
    \/ \E i \in RingSlots : ClearDone(i)
    \/ stop_threads
    \/ JoinThreads

\* the renderer draws into its frames, presents or records them
FramesNext ==
    \/ \E clear_rgba \in {0, 1} : begin_cpu_frame_live_rgba(clear_rgba)
    \/ draw_world_targets
    \/ present
    \/ record_begin
    \/ record_frame_only
    \/ PresentWake
    \/ PresentDone
    \/ ClearTake
    \/ \E i \in RingSlots : ClearDone(i)

\* the present thread and the clear workers while frames are recorded and
\* played back
PlaybackThreads ==
    \/ PresentWake
    \/ PresentRecDone
    \/ PresentDone
    \/ ClearTake
    \/ \E i \in RingSlots : ClearDone(i)

\* the renderer records frames and plays the recording back
PlaybackNext ==
    \/ begin_cpu_frame_live
    \/ present
    \/ record_begin
    \/ record_frame_only
    \/ record_end
    \/ \E loop \in BOOLEAN : playback_start(loop)
    \/ playback_stop
    \/ playback_present_next
    \/ PlaybackThreads

\* the renderer presents the frames it acquires, records some and plays the
\* recording back, without end
RecycleNext ==
    \/ (~valid(cur_frame) /\ begin_cpu_frame_live)
    \/ present
    \/ record_begin
    \/ (recording /\ record_frame_only)
    \/ \E loop \in BOOLEAN : playback_start(loop)
    \/ playback_present_next
    \/ PlaybackThreads

\* the present thread and the clear workers are scheduled again and again:
\* each step of theirs that stays possible is taken
RingFairness ==
    /\ WF_ringVars(PresentWake)
    /\ WF_ringVars(PresentRecDone)
    /\ WF_ringVars(PresentDone)
    /\ WF_ringVars(ClearTake)
    /\ \A i \in RingSlots : WF_ringVars(ClearDone(i))

\* a caller on the device's own interface that keeps frame handles
DeviceNext ==
    \/ begin_cpu_frame_live
    \/ present
    \/ record_begin
    \/ KeepFrame
    \/ gfx_present(kept_frame)
    \/ gfx_record_submit(kept_frame)
    \/ PresentWake
    \/ PresentDone
    \/ ClearTake
    \/ \E i \in RingSlots : ClearDone(i)

(***************************************************************************)
(* post_process_slice on one framebuffer row, as the scalar build and as   *)
(* the USE_SIMD build compute it.  Channel values are exact fractions: a   *)
(* value v in [0,1] is held as v * 255 * PostDen.  Exposure and contrast   *)
(* are multiples of 1/kUnit; saturation and vignette are switched off.     *)
(***************************************************************************)
kUnit == 4
kSimdWidth == 4
MaxRowW == 5
MaxGain == 5
MaxChannelStep == 1

PostDen == 2 * kUnit * kUnit
Gains == 1 .. MaxGain
Channels == {0} \cup {255 - 2 * k : k \in 0 .. MaxChannelStep}
Pixels == [r : Channels, g : Channels, b : Channels, a : {255}]
PostSettings == [exposure_enabled : BOOLEAN, exposure : Gains,
                 contrast_enabled : BOOLEAN, contrast : Gains]

PostIdle ==
    /\ pp_w = 0
    /\ pp_row = <<>>
    /\ pp_settings = [exposure_enabled |-> FALSE, exposure |-> kUnit,
                      contrast_enabled |-> FALSE, contrast |-> kUnit]
    /\ pp_scalar = <<>>
    /\ pp_simd = <<>>

\* a row of W pixels of one colour and the settings of the job
PostInit ==
    /\ pp_w \in 1 .. MaxRowW
    /\ \E p \in Pixels : pp_row = [x \in 1 .. pp_w |-> p]
    /\ pp_settings \in PostSettings
    /\ pp_scalar = <<>>
    /\ pp_simd = <<>>

\* unpack_rgba8 of one channel: c / 255.f
unpack_channel(c) == c * PostDen

\* the exposure and contrast stages, the same arithmetic in both paths
grade(v, s) ==
    LET v1 == IF s.exposure_enabled THEN (v * s.exposure) \div kUnit ELSE v
        half == (255 * PostDen) \div 2
    IN IF s.contrast_enabled
       THEN ((v1 - half) * s.contrast) \div kUnit + half
       ELSE v1

\* clamp01 / _mm_min_ps(_mm_max_ps(v, zero), one)
clamp01(v) == IF v < 0 THEN 0 ELSE IF v > 255 * PostDen THEN 255 * PostDen ELSE v

\* (std::uint8_t)(clamp01(v) * 255.f): the cast truncates
to_u8_scalar(v) == clamp01(v) \div PostDen

\* _mm_cvtps_epi32(v * 255.f): rounds to nearest, ties to even
to_u8_simd(v) ==
    LET q == clamp01(v) \div PostDen
        r == clamp01(v) % PostDen
    IN IF 2 * r > PostDen \/ (2 * r = PostDen /\ q % 2 = 1) THEN q + 1 ELSE q

\* the scalar loop body: unpack, grade, pack_rgba8_from_rgb
post_pixel_scalar(p, s) ==
    [r |-> to_u8_scalar(grade(unpack_channel(p.r), s)),
     g |-> to_u8_scalar(grade(unpack_channel(p.g), s)),
     b |-> to_u8_scalar(grade(unpack_channel(p.b), s)),
     a |-> 255]

\* one lane of the four-pixel loop body
post_pixel_simd(p, s) ==
    [r |-> to_u8_simd(grade(unpack_channel(p.r), s)),
     g |-> to_u8_simd(grade(unpack_channel(p.g), s)),
     b |-> to_u8_simd(grade(unpack_channel(p.b), s)),
     a |-> 255]

\* post_process_slice returns early when no stage is enabled
post_enabled(s) == s.exposure_enabled \/ s.contrast_enabled

\* the row as the build without USE_SIMD leaves it
post_row_scalar(row, W, s) ==
    IF ~post_enabled(s) THEN row
    ELSE [x \in 1 .. W |-> post_pixel_scalar(row[x], s)]

\* the row as the USE_SIMD build leaves it: whole groups of four pixels in
\* the vector loop, the tail in the scalar loop
post_row_simd(row, W, s) ==
    IF ~post_enabled(s) THEN row
    ELSE [x \in 1 .. W |->
            IF x <= kSimdWidth * (W \div kSimdWidth)
            THEN post_pixel_simd(row[x], s)
            ELSE post_pixel_scalar(row[x], s)]

PostProcessScalar ==
    /\ pp_w > 0
    /\ pp_scalar = <<>>
    /\ pp_scalar' = post_row_scalar(pp_row, pp_w, pp_settings)
    /\ UNCHANGED <<pp_w, pp_row, pp_settings, pp_simd>>
    /\ UNCHANGED nonPostVars

PostProcessSimd ==
    /\ pp_w > 0
    /\ pp_simd = <<>>
    /\ pp_simd' = post_row_simd(pp_row, pp_w, pp_settings)
    /\ UNCHANGED <<pp_w, pp_row, pp_settings, pp_scalar>>
    /\ UNCHANGED nonPostVars

PostNext ==
    \/ PostProcessScalar
    \/ PostProcessSimd

(***************************************************************************)
(* Properties                                                              *)
(***************************************************************************)

\* C1 - pass barrier: whenever a pass function has returned (the caller is
\* idle after at least one posted generation), every worker has latched that
\* generation, executed its slice for it, incremented m_done_count and is
\* back in the wait; m_done_count equals kWorkerCount.  No worker is still
\* inside a slice when the next pass is posted or the frame is presented.
C1_PassBarrier ==
    (cpc = "idle" /\ m_job_gen > 0) =>
        /\ m_done_count = kWorkerCount
        /\ \A w \in Workers :
              /\ wpc[w] = "wait"
              /\ seen_gen[w] = m_job_gen
              /\ slice_runs[w].gen = m_job_gen

\* two passes were posted and both have returned
C1_Witness ==
    /\ cpc = "idle"
    /\ m_job_gen >= 2
    /\ \A s \in Slices : slice_runs[s].count = m_job_gen

\* rows covered by the non-empty ranges
RangeRows(r) == IF r.y0 <= r.y1 THEN r.y0 .. r.y1 ELSE {}

\* C2 - slice cover: after compute_slice_ranges(H) the non-empty ranges are
\* pairwise disjoint, their union is exactly 0..H-1, and no range holds a
\* row >= H.
C2_SliceCover ==
    ranges_ready =>
        /\ \A s, t \in Slices :
              s # t => RangeRows(m_ranges[s]) \cap RangeRows(m_ranges[t]) = {}
        /\ UNION {RangeRows(m_ranges[s]) : s \in Slices} = 0 .. (fb_h - 1)

\* C23 - row alignment: after compute_slice_ranges(H) every non-empty range
\* except the final one ends on a 4-row boundary, (y1 + 1) mod 4 = 0, and
\* the final range ends at row H - 1.
C23_RowAligned ==
    ranges_ready =>
        /\ \A s \in Slices \ {kTotalSlices - 1} :
              m_ranges[s].y0 <= m_ranges[s].y1
                  => (m_ranges[s].y1 + 1) % kRowAlign = 0
        /\ m_ranges[kTotalSlices - 1].y1 = fb_h - 1

\* C24 - race-freedom of reads: in a pass no thread loads from a
\* framebuffer or z-buffer row that another thread stores to in that pass.
C24_RaceFreeReads ==
    \A s \in Slices : \A t \in Slices :
        s # t => wrote[s].rd \cap {p[2] : p \in wrote[t].px} = {}

\* C25 - exactly-once destruction: destroy_entity invokes the destructor
\* only on live component instances, never a second time on an instance it
\* has already destroyed, also when the entity occupies the last row of its
\* table.
C25_DestroyedOnce ==
    [][\A e \in Handles :
          DestroyEntity(e) => destroy_entity_destroys_live(World, e)]_vars

\* the parties that may touch the memory of slot i: the renderer through its
\* bound targets, the present thread uploading it, clear workers inside
\* clear_slot_cpu
RendererHas(i) == framebuffer = i \/ zbuffer = i
PresenterHas(i) == ppc = "present" /\ p_slot = i
ClearersOn(i) == cw_slots[i]

\* C26 as stated - slot buffer exclusivity: at every moment the memory of a
\* ring slot is touched by at most one party, and the slot's state tells
\* which: the renderer has it bound only while it is acquired by the current
\* frame, the present thread reads it only while it is presenting, and a
\* single clear worker writes it only while it is clearing.
C26_SlotExclusivity ==
    \A i \in RingSlots :
        /\ RendererHas(i) =>
              /\ slot_state[i] = "acquired"
              /\ valid(cur_frame)
              /\ cur_frame.slot = i
              /\ cur_frame.generation = slot_gen[i]
              /\ ~PresenterHas(i)
              /\ ClearersOn(i) = 0
        /\ PresenterHas(i) =>
              /\ slot_state[i] = "presenting"
              /\ ClearersOn(i) = 0
        /\ ClearersOn(i) > 0 =>
              /\ slot_state[i] = "clearing"
              /\ ClearersOn(i) = 1

\* C26 - slot buffer exclusivity: the memory of a ring slot is touched by at
\* most one party at a time.  The renderer has a slot bound only while the
\* slot is acquired, and that slot is the current frame's whenever there is
\* a current frame; a begin_cpu_frame that finds no slot free leaves the
\* targets of an unreleased earlier frame bound.  The present thread reads a
\* slot only while it is presenting, and a single clear worker writes it
\* only while it is clearing.
C26_SlotExclusivityAmended ==
    \A i \in RingSlots :
        /\ RendererHas(i) =>
              /\ slot_state[i] = "acquired"
              /\ valid(cur_frame) =>
                    (cur_frame.slot = i /\ cur_frame.generation = slot_gen[i])
              /\ ~PresenterHas(i)
              /\ ClearersOn(i) = 0
        /\ valid(cur_frame) => RendererHas(cur_frame.slot)
        /\ PresenterHas(i) =>
              /\ slot_state[i] = "presenting"
              /\ ClearersOn(i) = 0
        /\ ClearersOn(i) > 0 =>
              /\ slot_state[i] = "clearing"
              /\ ClearersOn(i) = 1

\* the renderer draws into one slot while the present thread uploads another
\* and a clear worker wipes the third
C26_Witness ==
    \E i, j, k \in RingSlots :
        /\ RendererHas(i) /\ ~slot_zero[i]
        /\ PresenterHas(j)
        /\ ClearersOn(k) = 1
        /\ i # j /\ j # k /\ i # k

\* C27 - every frame handed out refers to a slot whose colour and depth
\* buffers are entirely zero: a free slot is always zero, and the slot a
\* begin_cpu_frame step acquires is zero when it is handed out.
C27_FreshFrameZero ==
    /\ [](\A i \in RingSlots : slot_state[i] = "free" => slot_zero[i])
    /\ [][\A c \in {0, 1} :
            (begin_cpu_frame_live_rgba(c) /\ began') =>
                slot_zero[cur_frame'.slot]]_vars

\* a frame was handed out on a slot that was drawn into, presented and
\* cleared before
C27_Witness ==
    /\ began
    /\ valid(cur_frame)
    /\ cur_frame.generation > 1
    /\ slot_state[cur_frame.slot] = "acquired"
    /\ slot_zero[cur_frame.slot]
    /\ \E j \in RingSlots : ~slot_zero[j]

\* the handle f is stale: its slot has moved on to another generation
Stale(f) == valid(f) /\ slot_gen[f.slot] # f.generation

\* C29 - stale frame handles are ignored: present(f) and record_submit(f)
\* called with a cpu_frame whose generation is not the current generation
\* of its slot change the state and the generation of no slot.
C29_StaleIgnored ==
    [][((gfx_present(kept_frame) \/ gfx_record_submit(kept_frame))
            /\ Stale(kept_frame))
          => UNCHANGED <<slot_state, slot_gen>>]_vars

\* the frame playback_present_next is about to show
NextRecIndex == IF play_cursor >= rec_frames THEN 0 ELSE play_cursor

\* C30 - playback_present_next never blocks: it returns; while playback is
\* active and a frame is recorded it returns true after marking the recorded
\* frame at the cursor as the latest frame to present and advancing the
\* cursor by one (from 0 again when looping); with the cursor past the last
\* frame and looping off it stops playback and returns false.
C30_PlaybackNext ==
    [][playback_present_next =>
         /\ rpc' = "idle"
         /\ (playing /\ rec_frames > 0 /\ (play_cursor < rec_frames \/ looping)) =>
               /\ pb_ret' = "true"
               /\ latest_rec_valid'
               /\ latest_rec_index' = NextRecIndex
               /\ play_cursor' = NextRecIndex + 1
         /\ (playing /\ rec_frames > 0 /\ play_cursor >= rec_frames /\ ~looping) =>
               /\ pb_ret' = "false"
               /\ ~playing']_vars

\* C28 - slot recycling liveness: under fair scheduling and without
\* shutdown, every slot released with present(frame) and now queued returns
\* to state free, whether it is presented or dropped for a newer frame or a
\* recorded frame; and when every slot is on its way through the present
\* thread and the clear workers, a slot becomes free again for the next
\* begin_cpu_frame.
C28_SlotRecycled ==
    /\ \A i \in RingSlots :
           (slot_state[i] = "queued") ~> (slot_state[i] = "free")
    /\ (\A i \in RingSlots : slot_state[i] \in {"queued", "presenting", "clearing"})
           ~> (\E i \in RingSlots : slot_state[i] = "free")

\* C3 - write confinement: in a pass every thread stores only to rows of
\* its own range and to columns 0..W-1, and no pixel is stored to by two
\* threads.
C3_WriteConfinement ==
    /\ \A s \in Slices : \A p \in wrote[s].px :
          /\ 0 <= p[1] /\ p[1] < fb_w
          /\ m_ranges[s].y0 <= p[2] /\ p[2] <= m_ranges[s].y1
    /\ \A s, t \in Slices : s # t => wrote[s].px \cap wrote[t].px = {}

\* a draw pass in which every slice has run and two threads wrote pixels
C3_Witness ==
    /\ slice_job = "draw"
    /\ \A s \in Slices : wrote[s].ran
    /\ \E s, t \in Slices : s # t /\ wrote[s].px # {} /\ wrote[t].px # {}

\* the location the store reports for e
LocationOf(L, gens, e) ==
    IF alive(gens, e) /\ entity_index(e) < Len(L) THEN At(L, entity_index(e))
    ELSE [tid |-> INVALID_TABLE, row |-> 0]

LocationInv(T, L, gens, living) ==
    /\ \A e \in living :
          LET loc == LocationOf(L, gens, e)
          IN  /\ loc.tid # INVALID_TABLE
              /\ loc.tid < Len(T)
              /\ loc.row < Len(At(T, loc.tid).entities)
              /\ At(At(T, loc.tid).entities, loc.row) = e
    /\ \A tid \in 0 .. (Len(T) - 1) :
          \A row \in 0 .. (Len(At(T, tid).entities) - 1) :
              LET e == At(At(T, tid).entities, row)
              IN  /\ e \in living
                  /\ LocationOf(L, gens, e) = [tid |-> tid, row |-> row]

\* when the entity at a non-last row leaves that row, the entity of the
\* last row is afterwards located at that row of the same table
SwapRelocates ==
    \A tid \in 0 .. (Len(tables_) - 1) :
        LET ents == At(tables_, tid).entities
        IN  \A r \in 0 .. (Len(ents) - 2) :
                LET gone == At(ents, r)
                    last == At(ents, Len(ents) - 1)
                IN  (LocationOf(locations_', generations_', gone) # [tid |-> tid, row |-> r]
                     /\ Len(At(tables_', tid).entities) < Len(ents))
                    => LocationOf(locations_', generations_', last) = [tid |-> tid, row |-> r]

\* C4 - location integrity: after every operation each living entity has a
\* valid location naming the row that holds it, every row holds a distinct
\* living entity, and a swap-removal relocates the former last entity to
\* the vacated row.
C4_LocationIntegrity ==
    [][LocationInv(tables_', locations_', generations_', Living') /\ SwapRelocates]_vars

\* entity <<1,0>> was appended behind <<0,0>> in the empty table and moved
\* to row 0 when <<0,0>> was destroyed
C4_Witness ==
    /\ Len(tables_) = 1
    /\ <<0, 0>> \in destroyed
    /\ At(tables_, empty_table_).entities = <<(<<1, 0>>)>>
    /\ At(locations_, 1) = [tid |-> empty_table_, row |-> 0]

\* C5 - row counts: in every table each column has as many elements as the
\* table has entities, and never more elements than capacity.
C5_ColumnSizes ==
    \A i \in DOMAIN tables_ : \A j \in DOMAIN tables_[i].columns :
        LET c == tables_[i].columns[j]
        IN  /\ c.size = Len(tables_[i].entities)
            /\ c.size <= c.capacity
            /\ Len(c.cells) = c.capacity

\* a column filled to its capacity of two by two migrations into its table
C5_Witness ==
    \E i \in DOMAIN tables_ : \E j \in DOMAIN tables_[i].columns :
        /\ tables_[i].columns[j].capacity = 2
        /\ tables_[i].columns[j].size = 2

\* value of component cid of the entity located at loc
ValueAt(T, loc, cid) ==
    At(At(At(T, loc.tid).columns, column_index(At(T, loc.tid).key, cid)).cells, loc.row)

HasComponent(T, loc, cid) == key_contains(At(T, loc.tid).key, cid)

\* C6 - migration preserves data: across every operation, each component
\* an entity has both before and after reads the same value; this covers
\* the migrated entity's other components and every other entity, the one
\* swapped into the vacated row included.
C6_MigrationPreservesData ==
    [][\A e \in Living :
          alive(generations_', e) =>
            LET before == LocationOf(locations_, generations_, e)
                after == LocationOf(locations_', generations_', e)
            IN  \A cid \in Comps :
                  (HasComponent(tables_, before, cid) /\ HasComponent(tables_', after, cid))
                  => ValueAt(tables_', after, cid) = ValueAt(tables_, before, cid)]_vars

\* a migration vacated a non-last row: the bytes of the relocated element
\* are still in the former last slot, its entity now sits in the vacated row
C6_Witness ==
    \E i \in DOMAIN tables_ : \E j \in DOMAIN tables_[i].columns :
        LET c == tables_[i].columns[j]
        IN  /\ c.size >= 1
            /\ c.size < c.capacity
            /\ At(c.cells, c.size) \in Vals
            /\ Cardinality(Living) >= 2

\* C7 - entity identity: create_entity never returns a handle issued
\* before, a destroyed handle is never alive again, and the handle issued
\* for a recycled slot has a strictly greater generation than every earlier
\* handle of that slot.
C7_EntityIdentity ==
    [][/\ (alive_count_' = alive_count_ + 1) => Cardinality(issued') = Cardinality(issued) + 1
       /\ \A d \in destroyed' : ~alive(generations_', d)
       /\ \A e \in issued' \ issued : \A d \in issued :
             entity_index(d) = entity_index(e)
             => entity_generation(e) > entity_generation(d)]_vars

\* slot 0 was recycled: its first handle is destroyed, its second is living
C7_Witness ==
    /\ <<0, 0>> \in destroyed
    /\ <<0, 1>> \in Living

\* tables the cache has to expose: non-empty, key a superset of the required set
CacheTables ==
    {tid \in 0 .. (Len(tables_) - 1) :
        /\ Len(At(tables_, tid).entities) > 0
        /\ SeqRange(cache_cs) \subseteq SeqRange(At(tables_, tid).key)}

ColumnData(t, cid) ==
    (CHOOSE c \in SeqRange(t.columns) : c.cid = cid).data

ExpectedBlock(tid) ==
    [arrays |-> [i \in DOMAIN cache_cs |-> ColumnData(At(tables_, tid), cache_cs[i])],
     n |-> Len(At(tables_, tid).entities)]

\* C8 - cache consistency: whenever the cached version equals the world's
\* version, the blocks are exactly one block per non-empty matching table,
\* with that table's current row count and column base addresses.
C8_CacheConsistency ==
    (cached_version_ = version_) =>
        /\ Len(blocks_) = Cardinality(CacheTables)
        /\ SeqRange(blocks_) = {ExpectedBlock(tid) : tid \in CacheTables}

\* the cache is current, exposes a block, and left out a populated table
\* that lacks a required component
C8_Witness ==
    /\ cached_version_ = version_
    /\ Len(blocks_) >= 1
    /\ \E tid \in 0 .. (Len(tables_) - 1) :
          Len(At(tables_, tid).entities) > 0 /\ tid \notin CacheTables

\* C9 - memoization: a refresh with no structural mutation since the last
\* refresh scans no table and leaves blocks, matching and version as they
\* are.
C9_RefreshMemoized ==
    [][(~dirty /\ ~dirty') =>
          /\ ~rescanned'
          /\ blocks_' = blocks_
          /\ matching_' = matching_
          /\ cached_version_' = cached_version_]_vars

\* the state a second refresh runs in and returns in: refreshed, unmodified
\* since, with a block
C9_Witness ==
    /\ ~dirty
    /\ initialized_
    /\ ~rescanned
    /\ Len(blocks_) >= 1

structure == <<generations_, fragment_, alive_count_, tables_, key_tables_, locations_>>

\* C10 - version: version_ never decreases and strictly increases in every
\* step that changes the store's structure.
C10_VersionMonotone ==
    [][/\ version_' >= version_
       /\ (structure' # structure) => version_' > version_]_vars

\* each kind of structural change has happened
C10_Witness ==
    /\ version_ >= 5
    /\ destroyed # {}
    /\ \E i \in DOMAIN tables_ : Len(tables_[i].key) > 0 /\ Len(tables_[i].entities) > 0

\* every handle value a caller can form with entity::make, and the default one
MaxGeneration == 2
AnyHandles ==
    {entity_make(i, g) : i \in 0 .. MaxEntities, g \in 0 .. MaxGeneration}
        \cup {INVALID_ENTITY}

\* C12 - stale handles are absorbed: for every handle that is not a living
\* entity (destroyed, superseded, never issued or default-invalid),
\* destroy_entity, add_component and remove_component leave the whole store
\* unchanged, try_get_component returns nullptr and get_location returns an
\* invalid location.
C12_StaleHandlesAbsorbed ==
    \A e \in AnyHandles \ Living :
        /\ destroy_entity(World, e) = World
        /\ \A cid \in Comps :
              /\ \A v \in Vals \cup {NoValue} : add_component(World, e, cid, v) = World
              /\ remove_component(World, e, cid) = World
              /\ try_get_component(World, e, cid) = 0
        /\ get_location(World, e).tid = INVALID_TABLE

\* C13 - unregistered component types are absorbed: for every entity handle
\* and every type that was never registered, add_component<T> and
\* remove_component<T> leave the store unchanged and the program running,
\* and try_get_component<T> returns nullptr.
C13_UnregisteredAbsorbed ==
    \A e \in Handles : \A T \in Types \ DOMAIN type_ids_ :
        /\ \A v \in Vals \cup {NoValue} :
              add_component_of(World, type_ids_, e, T, v)
                  = {[halted |-> FALSE, w |-> World]}
        /\ remove_component_of(World, type_ids_, e, T)
              = {[halted |-> FALSE, w |-> World]}
        /\ try_get_component_of(World, type_ids_, e, T)
              = {[halted |-> FALSE, ptr |-> 0]}

\* C14 - redundant add / remove: for a living entity, add_component of a
\* component it already has (with or without a value) and remove_component
\* of a component it does not have return the store exactly as it was:
\* same table and row, same stored value, no other entity moved, same
\* version.
C14_RedundantAddRemove ==
    \A e \in Living : \A cid \in Comps :
        LET loc == LocationOf(locations_, generations_, e)
        IN  IF HasComponent(tables_, loc, cid)
            THEN \A v \in Vals \cup {NoValue} :
                    add_component(World, e, cid, v) = World
            ELSE remove_component(World, e, cid) = World

\* an entity holds a component with a non-default value next to another
\* entity in the same table, and lacks another component
C14_Witness ==
    \E e \in Living : \E cid \in Comps : \E other \in Comps :
        LET loc == LocationOf(locations_, generations_, e)
        IN  /\ HasComponent(tables_, loc, cid)
            /\ ValueAt(tables_, loc, cid) \in Vals
            /\ ~HasComponent(tables_, loc, other)
            /\ Len(At(tables_, loc.tid).entities) >= 2

\* C15 - archetype membership: every living entity sits in the table whose
\* key is exactly the set of components added to it and not removed since,
\* no two tables have the same key, and entities with the same component
\* set share a table.
C15_ArchetypeMembership ==
    /\ \A e \in Living :
          SeqRange(At(tables_, LocationOf(locations_, generations_, e).tid).key)
              = owned[e]
    /\ \A i \in DOMAIN tables_ : \A j \in DOMAIN tables_ :
          (i # j) => SeqRange(tables_[i].key) # SeqRange(tables_[j].key)
    /\ \A e1 \in Living : \A e2 \in Living :
          (owned[e1] = owned[e2])
          => LocationOf(locations_, generations_, e1).tid
                 = LocationOf(locations_, generations_, e2).tid

\* an entity reached the two-component archetype by adding the higher id
\* first, and the table of that archetype had been created by reserve
C15_Witness ==
    /\ \E e \in Living : owned[e] = {0, 1}
    /\ Len(tables_) = 3
    /\ At(tables_, 1).key = <<0, 1>>
    /\ At(tables_, 2).key = <<1>>

C17_Shutdown ==
    /\ [](cpc \in {"bumped", "joining", "joined"} =>
             /\ \A s \in Slices : slice_runs[s].gen # m_job_gen
             /\ \A w \in Workers : seen_gen[w] # m_job_gen)
    /\ (cpc = "bumped") ~>
           (cpc = "joined" /\ \A w \in Workers : wpc[w] = "exited")

\* the join returned after at least one pass had run on every slice
C17_Witness ==
    /\ cpc = "joined"
    /\ m_job_gen >= 2
    /\ \A w \in Workers : wpc[w] = "exited"
    /\ \A s \in Slices : slice_runs[s].gen = m_job_gen - 1

\* C18 - live mode: a begin_cpu_frame step that finds no slot free returns
\* false and leaves every slot's state and generation as they were; one that
\* finds a slot free returns true, moves exactly one slot from free to
\* acquired, changes no generation, and binds the framebuffer and the
\* z-buffer to that slot's buffers.
C18_TryBeginFrame ==
    [][begin_cpu_frame_live =>
         IF \A i \in RingSlots : slot_state[i] # "free"
         THEN /\ began' = FALSE
              /\ slot_state' = slot_state
              /\ slot_gen' = slot_gen
         ELSE /\ began' = TRUE
              /\ slot_gen' = slot_gen
              /\ \E i \in RingSlots :
                    /\ slot_state[i] = "free"
                    /\ slot_state' = [slot_state EXCEPT ![i] = "acquired"]
                    /\ framebuffer' = i
                    /\ zbuffer' = i
                    /\ cur_frame'.slot = i
                    /\ cur_frame'.generation = slot_gen[i]]_vars

\* begin_cpu_frame returned false with every slot in use, one of them still
\* acquired by an earlier call, while an earlier frame has been recycled
C18_Witness ==
    /\ rpc = "idle"
    /\ ~began
    /\ ~valid(cur_frame)
    /\ \A i \in RingSlots : slot_state[i] # "free"
    /\ \E i \in RingSlots : slot_state[i] = "acquired"
    /\ \E i \in RingSlots : slot_gen[i] > 1

\* C20 - when flush() has returned and the device is not shutting down,
\* nothing is pending: pending_frames() is 0.
C20_FlushDrains ==
    (rpc = "flushed" /\ ~shutting_down) => pending_frames = 0

\* C19 - SIMD/scalar equivalence: post_process_slice leaves the same packed
\* pixels in a row whether the build defines USE_SIMD or not.
C19_SimdScalarEqual ==
    (pp_scalar # <<>> /\ pp_simd # <<>>) => pp_simd = pp_scalar

\* the nearer of the two fragments of the frame
Nearer(fs) ==
    IF buffer_depth(fs[1].ndcz) > buffer_depth(fs[2].ndcz) THEN fs[1] ELSE fs[2]

\* C11 as stated - depth test order-independence: once two fragments with
\* distinct buffer depths have been drawn, in either order, the pixel holds
\* the colour and depth of the nearer one.
C11_NearerWinsAlways ==
    (nsub = 2 /\ frags[1].ndcz # frags[2].ndcz) =>
        /\ cpix = Nearer(frags).rgba
        /\ zpix = buffer_depth(Nearer(frags).ndcz)

\* C11 amended - when the nearer of two fragments with distinct buffer
\* depths is nearer than the cleared depth 0 (ndc.z < 1), the pixel ends up
\* with its colour and depth whatever the submission order; and the stored
\* depth never decreases while the frame's fragments are drawn.
C11_DepthTest ==
    [][/\ (nsub' > nsub) => zpix' >= zpix
       /\ (/\ nsub' = 2
           /\ frags'[1].ndcz # frags'[2].ndcz
           /\ buffer_depth(Nearer(frags').ndcz) > kClearDepth)
          => (/\ cpix' = Nearer(frags').rgba
              /\ zpix' = buffer_depth(Nearer(frags').ndcz))]_vars

\* the nearer fragment was drawn first and the farther one, itself in front
\* of the cleared depth, was rejected
C11_Witness ==
    /\ nsub = 2
    /\ buffer_depth(frags[1].ndcz) > buffer_depth(frags[2].ndcz)
    /\ buffer_depth(frags[2].ndcz) > kClearDepth
    /\ frags[1].rgba # frags[2].rgba
    /\ cpix = frags[1].rgba

\* C21 - registration is idempotent: register_component<T>() returns, at
\* every call, the position of T in the order of first registrations
\* (0, 1, 2, ...), so a repeated call returns the id of the first call; the
\* registry holds one entry per registered type, and two registered types
\* never share an id.
C21_RegistrationIdempotent ==
    /\ Len(type_infos_) = Len(reg_order)
    /\ DOMAIN type_ids_ = {reg_order[k] : k \in DOMAIN reg_order}
    /\ \A T \in DOMAIN type_ids_ : \A U \in DOMAIN type_ids_ :
          T # U => type_ids_[T] # type_ids_[U]
    /\ reg_ret # NoCall =>
          \E k \in DOMAIN reg_order : reg_order[k] = reg_ret.T /\ reg_ret.id = k - 1

\* the type registered first, whose name differs from its id, was
\* registered again after another type and got id 0 again
C21_Witness ==
    /\ Len(reg_order) >= 2
    /\ Len(type_infos_) = Len(reg_order)
    /\ reg_ret.T = reg_order[1]
    /\ reg_ret.T # 0
    /\ reg_ret.id = 0

\* C22 - exactly-once slice execution: whenever a slice is executed, by its
\* worker or (the last one) by the calling thread, it is executed for the
\* generation posted last, with the job type and the job parameters written
\* for that generation, and it is that slice's first run for the generation
\* with one run behind it for every earlier generation; when the pass
\* function returns every slice has run for its generation.
C22_ExactlyOnce ==
    [][/\ \A s \in Slices :
             slice_runs'[s] # slice_runs[s] =>
                 /\ slice_runs'[s].gen = m_job_gen
                 /\ slice_runs'[s].type = m_job_type
                 /\ slice_runs'[s].job = m_job_gen
                 /\ slice_runs'[s].count = m_job_gen
       /\ (cpc # "idle" /\ cpc' = "idle") =>
             \A s \in Slices :
                 /\ slice_runs'[s].gen = m_job_gen'
                 /\ slice_runs'[s].count = m_job_gen']_vars

\* in the second pass, of another type than the first, the caller and one
\* worker have run their slices and another worker has not yet
C22_Witness ==
    /\ m_job_gen = 2
    /\ ~m_shutdown
    /\ slice_runs[kTotalSlices - 1].count = 2
    /\ \E w \in Workers : \E v \in Workers :
          /\ slice_runs[w] = [gen |-> 2, type |-> m_job_type, job |-> 2, count |-> 2]
          /\ slice_runs[v].count = 1
          /\ slice_runs[v].type # m_job_type

(***************************************************************************)
(* Specifications                                                          *)
(***************************************************************************)
SchedSteps ==
    \/ NotifyJob
    \/ CallerRunSlice
    \/ CallerBlock
    \/ CallerSpuriousWake
    \/ CallerReturn
    \/ \E w \in Workers : WorkerWake(w)
    \/ \E w \in Workers : WorkerBlock(w)
    \/ \E w \in Workers : SpuriousWake(w)
    \/ \E w \in Workers : WorkerRunSlice(w)
    \/ \E w \in Workers : WorkerFinish(w)
    \/ ShutdownStore
    \/ ShutdownBump
    \/ ShutdownNotify
    \/ JoinWorkers

SchedNext ==
    \/ draw_world
    \/ draw_world_fill_job
    \/ draw_world_bump
    \/ apply_post_process
    \/ apply_rainy_effect
    \/ apply_advanced_effects
    \/ SchedSteps

\* the passes the fair specification posts
MaxFairPasses == 1

\* the scheduler with draw passes only, for the properties checked under
\* fairness; the other pass functions post through the same locked block
FairNext ==
    \/ (m_job_gen < MaxFairPasses /\ draw_world)
    \/ SchedSteps

SchedSpecInit == SchedInit /\ SliceIdle /\ EcsIdle /\ DepthIdle /\ RegIdle /\ RingIdle /\ PostIdle
SpecSched == SchedSpecInit /\ [][SchedNext]_vars

\* the threads are scheduled fairly: a thread that can take its next step
\* takes it; blocking in a wait is not forced, spurious wake-ups are not
\* relied on, and nothing obliges the program to post a pass or shut down
SchedFairness ==
    /\ WF_schedVars(NotifyJob)
    /\ WF_schedVars(CallerRunSlice)
    /\ WF_schedVars(CallerReturn)
    /\ WF_schedVars(ShutdownBump)
    /\ WF_schedVars(ShutdownNotify)
    /\ WF_schedVars(JoinWorkers)
    /\ \A w \in Workers :
          /\ WF_schedVars(WorkerWake(w))
          /\ WF_schedVars(WorkerRunSlice(w))
          /\ WF_schedVars(WorkerFinish(w))

SpecSchedFair == SchedSpecInit /\ [][FairNext]_vars /\ SchedFairness

SliceNext ==
    \/ ComputeSliceRanges
    \/ \E s \in Slices : RunSlice(s)

SliceSpecInit == SliceInit /\ SchedInit /\ EcsIdle /\ DepthIdle /\ RegIdle /\ RingIdle /\ PostIdle
SpecSlice == SliceSpecInit /\ [][SliceNext]_vars

WorldNext ==
    \/ CreateEntity
    \/ \E e \in Handles : DestroyEntity(e)
    \/ \E e \in Handles, cid \in Comps, v \in Vals \cup {NoValue} : AddComponent(e, cid, v)
    \/ \E e \in Handles, cid \in Comps : RemoveComponent(e, cid)
    \/ \E ids \in IdVectors, count \in ReserveCounts : Reserve(ids, count)

WorldSpecInit == EcsIdle /\ SchedInit /\ SliceIdle /\ DepthIdle /\ RegIdle /\ RingIdle /\ PostIdle
SpecWorld == WorldSpecInit /\ [][WorldNext]_vars

\* the store driven by a frame loop that refreshes the render cache
\* (optimized_renderer::refresh_render_cache) between mutations
Mutate == version_ < MaxCacheVersion /\ WorldNext

CacheNext ==
    \/ Mutate
    \/ Refresh

CacheSpecInit == EcsInit /\ SchedInit /\ SliceIdle /\ DepthIdle /\ RegIdle /\ RingIdle /\ PostIdle
SpecCache == CacheSpecInit /\ [][CacheNext]_vars

\* one pixel of one slice across frames
DepthNext ==
    \/ \E c \in ClearColours : begin_cpu_frame(c)
    \/ DrawFragment

DepthSpecInit == DepthInit /\ SchedInit /\ SliceIdle /\ EcsIdle /\ RegIdle /\ RingIdle /\ PostIdle
SpecDepth == DepthSpecInit /\ [][DepthNext]_vars

\* the store used through its typed interface, types registered on the way
RegistryNext ==
    \/ \E T \in Types : RegisterComponent(T)
    \/ EntityLifecycle
    \/ \E e \in Handles, T \in Types, v \in Vals \cup {NoValue} : AddComponentOf(e, T, v)
    \/ \E e \in Handles, T \in Types : RemoveComponentOf(e, T)

RegistrySpecInit == RegInit /\ EcsIdle /\ SchedInit /\ SliceIdle /\ DepthIdle /\ RingIdle /\ PostIdle
SpecRegistry == RegistrySpecInit /\ [][RegistryNext]_vars

RingSpecInit == RingInit /\ SchedInit /\ SliceIdle /\ EcsIdle /\ DepthIdle /\ RegIdle /\ PostIdle
SpecRing == RingSpecInit /\ [][RingNext]_vars

FramesSpecInit == RingInit /\ SchedInit /\ SliceIdle /\ EcsIdle /\ DepthIdle /\ RegIdle /\ PostIdle
SpecFrames == FramesSpecInit /\ [][FramesNext]_vars

PlaybackSpecInit == RingInit /\ SchedInit /\ SliceIdle /\ EcsIdle /\ DepthIdle /\ RegIdle /\ PostIdle
SpecPlayback == PlaybackSpecInit /\ [][PlaybackNext]_vars

DeviceSpecInit == RingInit /\ SchedInit /\ SliceIdle /\ EcsIdle /\ DepthIdle /\ RegIdle /\ PostIdle
SpecDevice == DeviceSpecInit /\ [][DeviceNext]_vars

RecycleSpecInit == RingInit /\ SchedInit /\ SliceIdle /\ EcsIdle /\ DepthIdle /\ RegIdle /\ PostIdle
SpecRecycle == RecycleSpecInit /\ [][RecycleNext]_vars /\ RingFairness

PostSpecInit == PostInit /\ SchedInit /\ SliceIdle /\ EcsIdle /\ DepthIdle /\ RegIdle /\ RingIdle
SpecPost == PostSpecInit /\ [][PostNext]_vars

====
